---- MODULE Spec2Model ----
(***************************************************************************)
(* free-tier-router: the in-memory state store, the rate-limit tracker,    *)
(* candidate selection with the priority strategy, and the execution       *)
(* driver (select -> pre-flight check -> upstream -> failover / retry).    *)
(*                                                                         *)
(* The specifications share the store and the clock:                       *)
(*   StoreSpec   - concurrent incrementUsage callers on the memory store   *)
(*   TrackerSpec - one client calling the tracker operations in sequence   *)
(*   Spec        - concurrent requests running the driver loop             *)
(*   CooldownSpec, ExhaustionSpec, FailingStoreSpec, UnknownModelSpec -    *)
(*                 the driver and the tracker under other configurations   *)
(*   StrategySpec, ResolutionSpec, ConfigSpec - pure functions applied to  *)
(*                 inputs drawn from bounded sets                          *)
(* Times are milliseconds since the epoch, as Date.now() returns them.     *)
(***************************************************************************)
EXTENDS Integers, Sequences, FiniteSets, TLC

VARIABLES
    now,        \* Date.now()
    ticks,      \* number of clock advances so far (bounds the run)
    usage,      \* MemoryStoreState.usage: key -> {record, expiresAt}
    cooldowns,  \* MemoryStoreState.cooldowns: provider:model -> expiresAt
    cpc,        \* StoreSpec: position of each incrementUsage caller
    carg,       \* StoreSpec: arguments of each caller
    cexisting,  \* StoreSpec: the record each caller read before its await
    input,      \* pure functions: the arguments of the call
    output,     \* pure functions: the last call and what it returned
    ret,        \* TrackerSpec: the last tracker call and what it returned
    log,        \* TrackerSpec: history of completed recordUsage calls
    cfg,        \* router configuration (fixed at construction)
    pc,         \* Spec: position of each request in the driver loop
    req,        \* Spec: the request parameters (messages, stream flag)
    excludedProviders, \* Spec: per request
    retryCount, \* Spec: per request
    lastError,  \* Spec: per request
    sel,        \* Spec: the selected (provider, model) of the iteration
    rec,        \* Spec: what an in-progress recordUsage read, and its args
    wakeAt,     \* Spec: end of the backoff sleep
    result,     \* Spec: what the request returned or threw
    hist,       \* Spec: per request history (upstream calls, marks, ...)
    started,    \* Spec: number of requests started so far
    failures,   \* Spec: number of upstream calls that failed so far
    retryAfterUntil, \* Spec: history, latest start + Retry-After per pair
    markedUntil \* Spec: history, expiry given by the last completed mark per pair

storeVars == <<usage, cooldowns>>
callerVars == <<cpc, carg, cexisting, input, output>>
clientVars == <<ret, log>>
driverVars == <<cfg, pc, req, excludedProviders, retryCount, lastError, sel,
                rec, wakeAt, result, hist, started, failures,
                retryAfterUntil, markedUntil>>
vars == <<now, ticks, usage, cooldowns, cpc, carg, cexisting, input, output,
          ret, log,
          cfg, pc, req, excludedProviders, retryCount, lastError, sel,
          rec, wakeAt, result, hist, started, failures,
                retryAfterUntil, markedUntil>>

----------------------------------------------------------------------------
(* Bounds of the model *)

MaxTicks == 3
MaxCalls == 2
MaxRequests == 3
MaxAdvances == 1
MaxFailures == 2

(* null / undefined *)
Null == -1

Max(a, b) == IF a >= b THEN a ELSE b
Min(a, b) == IF a <= b THEN a ELSE b

RECURSIVE SumOver(_, _)
SumOver(S, f) ==
    IF S = {} THEN 0
    ELSE LET x == CHOOSE y \in S : TRUE IN f[x] + SumOver(S \ {x}, f)

----------------------------------------------------------------------------
(* rate-limit/windows.ts *)

WINDOW_DURATION_MS == [minute |-> 60000, hour |-> 3600000, day |-> 86400000]

ALL_WINDOWS == <<"minute", "hour", "day">>

Windows == {ALL_WINDOWS[i] : i \in 1..Len(ALL_WINDOWS)}

(* a variant that rounds up to the next boundary *)
GetWindowStart_RoundUp(window, t) ==
    ((t + WINDOW_DURATION_MS[window] - 1) \div WINDOW_DURATION_MS[window])
       * WINDOW_DURATION_MS[window]

GetWindowStart(window, t) ==
    (t \div WINDOW_DURATION_MS[window]) * WINDOW_DURATION_MS[window]

GetWindowEnd(window, t) ==
    GetWindowStart(window, t) + WINDOW_DURATION_MS[window]

GetTimeUntilReset(window, t) == GetWindowEnd(window, t) - t

MakeUsageKey(provider, model, window) == <<provider, model, window>>

----------------------------------------------------------------------------
(* The catalog: provider definitions with their model records *)

NoLimits ==
    [requestsPerMinute |-> Null, requestsPerHour |-> Null,
     requestsPerDay |-> Null, tokensPerMinute |-> Null,
     tokensPerHour |-> Null, tokensPerDay |-> Null]

ProviderNames == {"A", "B", "C"}


Definition(p) ==
    CASE p = "A" ->
           [name |-> "A",
            models |-> <<[id |-> "m70", qualityTier |-> 3,
                          limits |-> [NoLimits EXCEPT
                                        !.requestsPerMinute = 1]],
                         [id |-> "m8", qualityTier |-> 1,
                          limits |-> NoLimits]>>]
      [] p = "B" ->
           [name |-> "B",
            models |-> <<[id |-> "m70", qualityTier |-> 3,
                          limits |-> [NoLimits EXCEPT
                                        !.tokensPerMinute = 20,
                                        !.requestsPerHour = 3]]>>]
      [] p = "C" ->
           [name |-> "C",
            models |-> <<[id |-> "m70", qualityTier |-> 3,
                          limits |-> NoLimits],
                         [id |-> "m120", qualityTier |-> 4,
                          limits |-> NoLimits]>>]

Priority(p) == CASE p = "A" -> 0 [] p = "B" -> 1 [] p = "C" -> 2

ModelsOf(p) == {Definition(p).models[i] : i \in 1..Len(Definition(p).models)}

Pairs == UNION {{<<p, m.id>> : m \in ModelsOf(p)} : p \in ProviderNames}

UsageKeys == {MakeUsageKey(k[1], k[2], w) : k \in Pairs, w \in Windows}

----------------------------------------------------------------------------
(* state/utils.ts *)

MakeKey(provider, model) == <<provider, model>>

NullUsage == [requests |-> 0, tokens |-> 0, windowStart |-> Null]

NoEntry == [record |-> NullUsage, expiresAt |-> Null]

IsExpired(expiresAt, t) == expiresAt # Null /\ t > expiresAt


CalculateUpdatedUsage_DropTokens(existing, requests, tokens, windowStart) ==
    IF existing = NullUsage \/ existing.windowStart # windowStart
    THEN [requests |-> requests, tokens |-> tokens, windowStart |-> windowStart]
    ELSE [requests |-> existing.requests + requests,
          tokens |-> tokens,
          windowStart |-> existing.windowStart]

CalculateUpdatedUsage(existing, requests, tokens, windowStart) ==
    LET shouldReset ==
            existing = NullUsage \/ existing.windowStart # windowStart
    IN IF shouldReset
       THEN [requests |-> requests, tokens |-> tokens,
             windowStart |-> windowStart]
       ELSE [requests |-> existing.requests + requests,
             tokens |-> existing.tokens + tokens,
             windowStart |-> existing.windowStart]

----------------------------------------------------------------------------
(* state/memory.ts.  Each operation is given as the value it returns and   *)
(* the map it leaves behind (reads delete expired entries).                *)

GetUsage(u, key, t) ==
    IF u[key] = NoEntry THEN NullUsage
    ELSE IF IsExpired(u[key].expiresAt, t) THEN NullUsage
    ELSE u[key].record

GetUsageStore(u, key, t) ==
    IF u[key] # NoEntry /\ IsExpired(u[key].expiresAt, t)
    THEN [u EXCEPT ![key] = NoEntry]
    ELSE u

SetUsage(u, key, record, ttlMs, t) ==
    [u EXCEPT ![key] =
        [record |-> record,
         expiresAt |-> IF ttlMs # 0 /\ ttlMs # Null THEN t + ttlMs ELSE Null]]

(* a variant that never lets a record lapse *)
GetCooldown_NeverExpires(cd, provider, model, t) ==
    cd[MakeKey(provider, model)]

GetCooldown(cd, provider, model, t) ==
    LET key == MakeKey(provider, model) IN
    IF cd[key] = Null THEN Null
    ELSE IF t > cd[key] THEN Null
    ELSE cd[key]

GetCooldownStore(cd, provider, model, t) ==
    LET key == MakeKey(provider, model) IN
    IF cd[key] # Null /\ t > cd[key] THEN [cd EXCEPT ![key] = Null] ELSE cd

(* a variant that keys the cooldown by provider alone *)
SetCooldown_WholeProvider(cd, provider, model, expiresAt) ==
    [k \in DOMAIN cd |-> IF k[1] = provider THEN expiresAt ELSE cd[k]]

SetCooldown(cd, provider, model, expiresAt) ==
    [cd EXCEPT ![MakeKey(provider, model)] = expiresAt]

RemoveCooldown(cd, provider, model) ==
    [cd EXCEPT ![MakeKey(provider, model)] = Null]

----------------------------------------------------------------------------
(* rate-limit/tracker.ts *)

DefaultCooldownMs == 60000

GetLimitForWindow(limits, window, metric) ==
    CASE metric = "requests" /\ window = "minute" -> limits.requestsPerMinute
      [] metric = "requests" /\ window = "hour" -> limits.requestsPerHour
      [] metric = "requests" /\ window = "day" -> limits.requestsPerDay
      [] metric = "tokens" /\ window = "minute" -> limits.tokensPerMinute
      [] metric = "tokens" /\ window = "hour" -> limits.tokensPerHour
      [] metric = "tokens" /\ window = "day" -> limits.tokensPerDay

(* const usage = await store.getUsage(key); stale or absent counts as zero *)
UsageByWindow(u, provider, model, window, t) ==
    LET rec0 == GetUsage(u, MakeUsageKey(provider, model, window), t) IN
    IF rec0 = NullUsage \/ rec0.windowStart # GetWindowStart(window, t)
    THEN [requests |-> 0, tokens |-> 0]
    ELSE [requests |-> rec0.requests, tokens |-> rec0.tokens]

GetQuotaStatus_KeepStale(u, cd, provider, model, limits, t) ==
    LET used(w) ==
            LET rec0 == GetUsage(u, MakeUsageKey(provider, model, w), t) IN
            IF rec0 = NullUsage THEN [requests |-> 0, tokens |-> 0]
            ELSE [requests |-> rec0.requests, tokens |-> rec0.tokens]
        rl(w) == GetLimitForWindow(limits, w, "requests")
        tl(w) == GetLimitForWindow(limits, w, "tokens")
    IN [requestsRemaining |->
            [w \in Windows |->
                IF rl(w) # Null THEN Max(0, rl(w) - used(w).requests)
                ELSE Null],
        tokensRemaining |->
            [w \in Windows |->
                IF tl(w) # Null THEN Max(0, tl(w) - used(w).tokens)
                ELSE Null],
        resetTimes |->
            [w \in Windows |->
                IF rl(w) # Null \/ tl(w) # Null THEN GetWindowEnd(w, t)
                ELSE Null],
        cooldownUntil |-> GetCooldown(cd, provider, model, t)]

GetQuotaStatus(u, cd, provider, model, limits, t) ==
    LET used(w) == UsageByWindow(u, provider, model, w, t)
        rl(w) == GetLimitForWindow(limits, w, "requests")
        tl(w) == GetLimitForWindow(limits, w, "tokens")
    IN [requestsRemaining |->
            [w \in Windows |->
                IF rl(w) # Null THEN Max(0, rl(w) - used(w).requests)
                ELSE Null],
        tokensRemaining |->
            [w \in Windows |->
                IF tl(w) # Null THEN Max(0, tl(w) - used(w).tokens)
                ELSE Null],
        resetTimes |->
            [w \in Windows |->
                IF rl(w) # Null \/ tl(w) # Null THEN GetWindowEnd(w, t)
                ELSE Null],
        cooldownUntil |-> GetCooldown(cd, provider, model, t)]

(* the usage map after the three getUsage reads of getQuotaStatus *)
RECURSIVE PruneUsage(_, _, _)
PruneUsage(u, keys, t) ==
    IF keys = {} THEN u
    ELSE LET k == CHOOSE x \in keys : TRUE
         IN PruneUsage(GetUsageStore(u, k, t), keys \ {k}, t)

KeysOf(provider, model) ==
    {MakeUsageKey(provider, model, w) : w \in Windows}

IsInCooldown(cd, provider, model, t) ==
    GetCooldown(cd, provider, model, t) # Null

GetCooldownUntil(cd, provider, model, t) ==
    GetCooldown(cd, provider, model, t)


CanMakeRequest_TokensInclusive(u, cd, provider, model, limits, estimatedTokens, t) ==
    IF IsInCooldown(cd, provider, model, t) THEN FALSE
    ELSE
      LET quota == GetQuotaStatus(u, cd, provider, model, limits, t) IN
      IF \E i \in 1..Len(ALL_WINDOWS) :
            /\ quota.requestsRemaining[ALL_WINDOWS[i]] # Null
            /\ quota.requestsRemaining[ALL_WINDOWS[i]] <= 0
      THEN FALSE
      ELSE IF estimatedTokens > 0
            /\ \E i \in 1..Len(ALL_WINDOWS) :
                 /\ quota.tokensRemaining[ALL_WINDOWS[i]] # Null
                 /\ quota.tokensRemaining[ALL_WINDOWS[i]] <= estimatedTokens
      THEN FALSE
      ELSE TRUE

CanMakeRequest(u, cd, provider, model, limits, estimatedTokens, t) ==
    IF IsInCooldown(cd, provider, model, t) THEN FALSE
    ELSE
      LET quota == GetQuotaStatus(u, cd, provider, model, limits, t) IN
      IF \E i \in 1..Len(ALL_WINDOWS) :
            /\ quota.requestsRemaining[ALL_WINDOWS[i]] # Null
            /\ quota.requestsRemaining[ALL_WINDOWS[i]] <= 0
      THEN FALSE
      ELSE IF estimatedTokens > 0
            /\ \E i \in 1..Len(ALL_WINDOWS) :
                 /\ quota.tokensRemaining[ALL_WINDOWS[i]] # Null
                 /\ quota.tokensRemaining[ALL_WINDOWS[i]] < estimatedTokens
      THEN FALSE
      ELSE TRUE

(* the store after canMakeRequest: getCooldown, then (when not cooling)    *)
(* the reads of getQuotaStatus                                             *)
CanMakeRequestUsage(u, cd, provider, model, t) ==
    IF IsInCooldown(cd, provider, model, t) THEN u
    ELSE PruneUsage(u, KeysOf(provider, model), t)


(* a variant whose write has not reached the store when it returns *)
MarkRateLimited_NotStored(cd, provider, model, resetAt, t) == cd

(* a variant with half the default cooldown *)
MarkRateLimited_ShortDefault(cd, provider, model, resetAt, t) ==
    LET expiresAt == IF resetAt # Null THEN resetAt
                     ELSE t + (DefaultCooldownMs \div 2)
    IN SetCooldown(cd, provider, model, expiresAt)

MarkRateLimited(cd, provider, model, resetAt, t) ==
    LET expiresAt == IF resetAt # Null THEN resetAt ELSE t + DefaultCooldownMs
    IN SetCooldown(cd, provider, model, expiresAt)

ClearCooldown(cd, provider, model) == RemoveCooldown(cd, provider, model)

(* recordUsage starts three incrementUsage calls; each reads its key       *)
(* before the first await (memory.ts line 70) and writes after it.         *)
RecordUsageRead(u, provider, model, t) ==
    [w \in Windows |-> GetUsage(u, MakeUsageKey(provider, model, w), t)]


RecordUsageWrite(u, provider, model, tokens, existing, t0, t) ==
    LET write(uu, w) ==
            SetUsage(uu, MakeUsageKey(provider, model, w),
                     CalculateUpdatedUsage(existing[w], 1, tokens,
                                           GetWindowStart(w, t0)),
                     WINDOW_DURATION_MS[w], t)
    IN write(write(write(u, ALL_WINDOWS[1]), ALL_WINDOWS[2]), ALL_WINDOWS[3])

RecordUsage(u, provider, model, tokens, t) ==
    RecordUsageWrite(PruneUsage(u, KeysOf(provider, model), t),
                     provider, model, tokens,
                     RecordUsageRead(u, provider, model, t), t, t)

----------------------------------------------------------------------------
(* The clock *)

StartTime == 86400000 - 30000

TickSteps == {30000, 3600000}

Tick ==
    /\ ticks < MaxTicks
    /\ \E d \in TickSteps : now' = now + d
    /\ ticks' = ticks + 1
    /\ UNCHANGED <<storeVars, callerVars, clientVars, driverVars>>

----------------------------------------------------------------------------
(* StoreSpec: callers of store.incrementUsage that overlap.  A caller runs *)
(* up to `await getUsage(key)` in one step and from there to the end in a  *)
(* second step; other callers may run in between.                          *)

Callers == {"c1", "c2", "c3"}

NoArg == [key |-> <<>>, requests |-> 0, tokens |-> 0, windowStart |-> Null,
          ttlMs |-> Null]

StoreKeys == {MakeUsageKey("A", "m70", "minute"), MakeUsageKey("A", "m70", "hour")}

IncrementUsageBegin(c, key, requests, tokens) ==
    /\ cpc[c] = "idle"
    /\ carg' = [carg EXCEPT ![c] =
                  [key |-> key, requests |-> requests, tokens |-> tokens,
                   windowStart |-> GetWindowStart(key[3], now),
                   ttlMs |-> WINDOW_DURATION_MS[key[3]]]]
    /\ cexisting' = [cexisting EXCEPT ![c] = GetUsage(usage, key, now)]
    /\ usage' = GetUsageStore(usage, key, now)
    /\ cpc' = [cpc EXCEPT ![c] = "awaitGet"]
    /\ UNCHANGED <<now, ticks, cooldowns, input, output, clientVars,
                   driverVars>>

IncrementUsageEnd(c) ==
    /\ cpc[c] = "awaitGet"
    /\ usage' = SetUsage(usage, carg[c].key,
                         CalculateUpdatedUsage(cexisting[c], carg[c].requests,
                                               carg[c].tokens,
                                               carg[c].windowStart),
                         carg[c].ttlMs, now)
    /\ cpc' = [cpc EXCEPT ![c] = "done"]
    /\ UNCHANGED <<now, ticks, cooldowns, carg, cexisting, input, output,
                   clientVars, driverVars>>

NoRet == [op |-> "none"]

NoInput == [fn |-> "none"]

NoOutput == [fn |-> "none"]

NoCfg == [providers |-> {}, maxRetries |-> 0, throwOnExhausted |-> TRUE]

IdleDriver ==
    /\ cfg = NoCfg
    /\ pc = <<>> /\ req = <<>> /\ excludedProviders = <<>>
    /\ retryCount = <<>> /\ lastError = <<>> /\ sel = <<>> /\ rec = <<>>
    /\ wakeAt = <<>> /\ result = <<>> /\ hist = <<>>
    /\ started = 0 /\ failures = 0
    /\ retryAfterUntil = <<>> /\ markedUntil = <<>>

IdleCallers ==
    /\ cpc = [c \in Callers |-> "idle"]
    /\ carg = [c \in Callers |-> NoArg]
    /\ cexisting = [c \in Callers |-> NullUsage]
    /\ input = NoInput /\ output = NoOutput

IdleClient == ret = NoRet /\ log = <<>>

EmptyStore ==
    /\ usage = [k \in UsageKeys |-> NoEntry]
    /\ cooldowns = [k \in Pairs |-> Null]

StoreInit ==
    /\ now = StartTime /\ ticks = 0
    /\ EmptyStore /\ IdleCallers /\ IdleClient /\ IdleDriver

StoreNext ==
    \/ \E c \in Callers, key \in StoreKeys, tokens \in {0, 5} :
          IncrementUsageBegin(c, key, 1, tokens)
    \/ \E c \in Callers : IncrementUsageEnd(c)
    \/ Tick

StoreSpec == StoreInit /\ [][StoreNext]_vars

(* C1: when every caller has finished and all of them carried the same key *)
(* and the same window-start, the stored request count is the sum of the   *)
(* request deltas and the stored token count the sum of the token deltas.  *)
C1_NoLostUpdate ==
    (/\ \A c \in Callers : cpc[c] = "done"
     /\ \A c, d \in Callers :
           carg[c].key = carg[d].key /\ carg[c].windowStart = carg[d].windowStart)
    => LET k == carg[CHOOSE c \in Callers : TRUE].key IN
       /\ usage[k].record.requests =
             SumOver(Callers, [c \in Callers |-> carg[c].requests])
       /\ usage[k].record.tokens =
             SumOver(Callers, [c \in Callers |-> carg[c].tokens])

----------------------------------------------------------------------------
(* TrackerSpec: one client that calls the tracker operations one after the *)
(* other, each call completing before the next starts, while time passes.  *)
(* `log` is the history of the completed recordUsage calls; `ret` is the   *)
(* last call with the value it returned.                                   *)

StartTimes == {86400000 - 30000, (3 * 3600000) - 30000, 3600000 + 120000 - 30000}

TrackerPairs == {<<"A", "m70">>, <<"B", "m70">>}

LimitsOf(provider, model) ==
    (CHOOSE mc \in ModelsOf(provider) : mc.id = model).limits

CooldownPairs == {<<"A", "m70">>}

(* the pairs isInCooldown is asked about *)
CheckPairs == {<<"A", "m70">>, <<"A", "m8">>, <<"B", "m70">>}

TokenValues == {5, 12}

EstimateValues == {0, 8}

TRecordUsage(p, m, tokens) ==
    /\ Len(log) < MaxCalls
    /\ usage' = RecordUsage(usage, p, m, tokens, now)
    /\ log' = Append(log, [op |-> "recordUsage", provider |-> p, model |-> m,
                           tokens |-> tokens, at |-> now])
    /\ ret' = [op |-> "recordUsage", provider |-> p, model |-> m, at |-> now]
    /\ UNCHANGED <<now, ticks, cooldowns, callerVars, driverVars>>

TGetQuotaStatus(p, m, limits) ==
    /\ ret' = [op |-> "getQuotaStatus", provider |-> p, model |-> m,
               limits |-> limits, at |-> now,
               value |-> GetQuotaStatus(usage, cooldowns, p, m, limits, now)]
    /\ usage' = PruneUsage(usage, KeysOf(p, m), now)
    /\ cooldowns' = GetCooldownStore(cooldowns, p, m, now)
    /\ UNCHANGED <<now, ticks, log, callerVars, driverVars>>

TCanMakeRequest(p, m, limits, estimatedTokens) ==
    /\ ret' = [op |-> "canMakeRequest", provider |-> p, model |-> m,
               limits |-> limits, estimatedTokens |-> estimatedTokens,
               at |-> now,
               value |-> CanMakeRequest(usage, cooldowns, p, m, limits,
                                        estimatedTokens, now)]
    /\ usage' = CanMakeRequestUsage(usage, cooldowns, p, m, now)
    /\ cooldowns' = GetCooldownStore(cooldowns, p, m, now)
    /\ UNCHANGED <<now, ticks, log, callerVars, driverVars>>

TMarkRateLimited(p, m, resetAt) ==
    /\ Len(log) < MaxCalls
    /\ cooldowns' = MarkRateLimited(cooldowns, p, m, resetAt, now)
    /\ log' = Append(log, [op |-> "markRateLimited", provider |-> p,
                           model |-> m, tokens |-> resetAt, at |-> now])
    /\ ret' = [op |-> "markRateLimited", provider |-> p, model |-> m,
               at |-> now]
    /\ UNCHANGED <<now, ticks, usage, callerVars, driverVars>>

TIsInCooldown(p, m) ==
    /\ ret' = [op |-> "isInCooldown", provider |-> p, model |-> m, at |-> now,
               value |-> IsInCooldown(cooldowns, p, m, now)]
    /\ cooldowns' = GetCooldownStore(cooldowns, p, m, now)
    /\ UNCHANGED <<now, ticks, usage, log, callerVars, driverVars>>

TClearCooldown(p, m) ==
    /\ Len(log) < MaxCalls
    /\ cooldowns[MakeKey(p, m)] # Null
    /\ cooldowns' = ClearCooldown(cooldowns, p, m)
    /\ log' = Append(log, [op |-> "clearCooldown", provider |-> p,
                           model |-> m, tokens |-> Null, at |-> now])
    /\ ret' = [op |-> "clearCooldown", provider |-> p, model |-> m, at |-> now]
    /\ UNCHANGED <<now, ticks, usage, callerVars, driverVars>>

TTick ==
    /\ ticks < MaxTicks
    /\ now' = now + 30000
    /\ ticks' = ticks + 1
    /\ UNCHANGED <<storeVars, callerVars, clientVars, driverVars>>

TrackerInit ==
    /\ now \in StartTimes /\ ticks = 0
    /\ EmptyStore /\ IdleCallers /\ IdleClient /\ IdleDriver

TrackerNext ==
    \/ \E k \in TrackerPairs, tokens \in TokenValues :
          (k[1] = "A" => tokens = 5) /\ TRecordUsage(k[1], k[2], tokens)
    \/ \E k \in TrackerPairs : TGetQuotaStatus(k[1], k[2], LimitsOf(k[1], k[2]))
    \/ \E k \in TrackerPairs, e \in EstimateValues :
          TCanMakeRequest(k[1], k[2], LimitsOf(k[1], k[2]), e)
    \/ \E k \in CooldownPairs, d \in {Null, 90000} :
          TMarkRateLimited(k[1], k[2], IF d = Null THEN Null ELSE now + d)
    \/ \E k \in CheckPairs : TIsInCooldown(k[1], k[2])
    \/ \E k \in CooldownPairs : TClearCooldown(k[1], k[2])
    \/ TTick

TrackerSpec == TrackerInit /\ [][TrackerNext]_vars

(* the recordUsage calls for (p, m) that fell in the window of kind w that *)
(* contains time t                                                         *)
CallsInWindow(p, m, w, t) ==
    {i \in 1..Len(log) :
        /\ log[i].op = "recordUsage"
        /\ log[i].provider = p /\ log[i].model = m
        /\ GetWindowStart(w, log[i].at) = GetWindowStart(w, t)}

TokensInWindow(p, m, w, t) ==
    SumOver(CallsInWindow(p, m, w, t), [i \in 1..Len(log) |-> log[i].tokens])

UsedRequests(p, m, w, t) == Cardinality(CallsInWindow(p, m, w, t))

(* C7: for recordUsage calls made one after the other for one (provider,   *)
(* model), the record stored for the current aligned window of each kind   *)
(* holds as many requests as calls fell in that window, and the sum of     *)
(* their token arguments.                                                  *)
C7_SequentialRecordUsage ==
    \A k \in TrackerPairs, w \in Windows :
        CallsInWindow(k[1], k[2], w, now) # {}
        => usage[MakeUsageKey(k[1], k[2], w)].record =
              [requests |-> UsedRequests(k[1], k[2], w, now),
               tokens |-> TokensInWindow(k[1], k[2], w, now),
               windowStart |-> GetWindowStart(w, now)]

C7_Witness ==
    \E k \in TrackerPairs :
        /\ UsedRequests(k[1], k[2], "minute", now) = 2
        /\ usage[MakeUsageKey(k[1], k[2], "minute")].record.requests = 2
        /\ usage[MakeUsageKey(k[1], k[2], "minute")].record.tokens = 17

(* C8: a getQuotaStatus issued in a window in which no usage was recorded  *)
(* yet reports the full limit as remaining for that window, whatever was   *)
(* recorded in earlier windows.                                            *)
C8_FreshWindowZeroUsage ==
    ret.op = "getQuotaStatus"
    => \A w \in Windows :
          CallsInWindow(ret.provider, ret.model, w, ret.at) = {}
          => /\ ret.value.requestsRemaining[w] =
                   GetLimitForWindow(ret.limits, w, "requests")
             /\ ret.value.tokensRemaining[w] =
                   GetLimitForWindow(ret.limits, w, "tokens")

(* usage was recorded in the previous minute, the boundary was crossed,    *)
(* and the status reports the whole token limit again                      *)
C8_Witness ==
    /\ ret.op = "getQuotaStatus"
    /\ \E i \in 1..Len(log) :
          /\ log[i].op = "recordUsage"
          /\ log[i].provider = ret.provider /\ log[i].model = ret.model
          /\ log[i].tokens > 0
          /\ log[i].at < GetWindowStart("minute", ret.at)
          /\ usage[MakeUsageKey(ret.provider, ret.model, "minute")] # NoEntry
    /\ GetLimitForWindow(ret.limits, "minute", "tokens") # Null
    /\ ret.value.tokensRemaining["minute"] =
          GetLimitForWindow(ret.limits, "minute", "tokens")

(* C4: canMakeRequest returns false exactly when the pair is in cooldown,  *)
(* or a configured request limit has no request left in its window, or     *)
(* the estimate is positive and a configured token limit has fewer tokens  *)
(* left than the estimate.                                                 *)
RequestsExhausted(p, m, limits, t) ==
    \E w \in Windows :
        /\ GetLimitForWindow(limits, w, "requests") # Null
        /\ GetLimitForWindow(limits, w, "requests") - UsedRequests(p, m, w, t) <= 0

TokensShort(p, m, limits, k, t) ==
    /\ k > 0
    /\ \E w \in Windows :
          /\ GetLimitForWindow(limits, w, "tokens") # Null
          /\ Max(0, GetLimitForWindow(limits, w, "tokens")
                      - TokensInWindow(p, m, w, t)) < k

C4_CanMakeRequestIff ==
    ret.op = "canMakeRequest"
    => (ret.value = FALSE
        <=> \/ IsInCooldown(cooldowns, ret.provider, ret.model, ret.at)
            \/ RequestsExhausted(ret.provider, ret.model, ret.limits, ret.at)
            \/ TokensShort(ret.provider, ret.model, ret.limits,
                           ret.estimatedTokens, ret.at))

(* refused for tokens alone: not cooling, under every request window *)
C4_Witness ==
    /\ ret.op = "canMakeRequest"
    /\ ret.value = FALSE
    /\ ~IsInCooldown(cooldowns, ret.provider, ret.model, ret.at)
    /\ ~RequestsExhausted(ret.provider, ret.model, ret.limits, ret.at)
    /\ TokensShort(ret.provider, ret.model, ret.limits, ret.estimatedTokens,
                   ret.at)

----------------------------------------------------------------------------
(* rate-limit/tokens.ts.  A message content is modelled by its length in   *)
(* characters; Null stands for a content that is not a string.             *)

EstimateTokens(len) == IF len = 0 THEN 0 ELSE (len + 3) \div 4

EstimateMessageTokens(len) == EstimateTokens(len) + 4

RECURSIVE SumMessages(_)
SumMessages(messages) ==
    IF messages = <<>> THEN 0
    ELSE EstimateMessageTokens(Head(messages)) + SumMessages(Tail(messages))

EstimateChatTokens(messages) == SumMessages(messages) + 3

(* params.messages.map(m => typeof m.content === "string" ? m.content : "") *)
ContentLengths(messages) ==
    [i \in 1..Len(messages) |-> IF messages[i] = Null THEN 0 ELSE messages[i]]

----------------------------------------------------------------------------
(* routing/errors.ts: parseInt(retryAfter, 10) on a header given as its    *)
(* characters; NoHeader is a missing header.                               *)

NoHeader == <<"undefined">>

Digits == {"0", "1", "2", "3", "4", "5", "6", "7", "8", "9"}

DigitValue(ch) ==
    CASE ch = "0" -> 0 [] ch = "1" -> 1 [] ch = "2" -> 2 [] ch = "3" -> 3
      [] ch = "4" -> 4 [] ch = "5" -> 5 [] ch = "6" -> 6 [] ch = "7" -> 7
      [] ch = "8" -> 8 [] ch = "9" -> 9

RECURSIVE SkipSpaces(_)
SkipSpaces(chars) ==
    IF chars # <<>> /\ Head(chars) = " " THEN SkipSpaces(Tail(chars))
    ELSE chars

RECURSIVE DigitPrefix(_, _)
DigitPrefix(chars, acc) ==
    IF chars # <<>> /\ Head(chars) \in Digits
    THEN DigitPrefix(Tail(chars), acc * 10 + DigitValue(Head(chars)))
    ELSE acc

ParseInt(chars) ==
    LET s0 == SkipSpaces(chars)
        negative == s0 # <<>> /\ Head(s0) = "-"
        s1 == IF s0 # <<>> /\ Head(s0) \in {"-", "+"} THEN Tail(s0) ELSE s0
    IN IF s1 = <<>> \/ Head(s1) \notin Digits
       THEN [nan |-> TRUE, value |-> 0]
       ELSE [nan |-> FALSE,
             value |-> IF negative THEN 0 - DigitPrefix(s1, 0)
                       ELSE DigitPrefix(s1, 0)]

IsRateLimitError(error) == error.status = 429

(* resetAt of the RateLimitError, Null when the header gives none *)
ParseRateLimitError_Millis(error, t) ==
    IF error.retryAfter # NoHeader /\ error.retryAfter # <<>>
          /\ ~ParseInt(error.retryAfter).nan
    THEN t + ParseInt(error.retryAfter).value
    ELSE Null

ParseRateLimitError(error, t) ==
    LET retryAfter == error.retryAfter IN
    IF retryAfter # NoHeader /\ retryAfter # <<>>
    THEN LET retryAfterSeconds == ParseInt(retryAfter) IN
         IF ~retryAfterSeconds.nan
         THEN t + retryAfterSeconds.value * 1000
         ELSE Null
    ELSE Null

----------------------------------------------------------------------------
(* Candidate selection (router.ts selectProvider and its helpers) and the  *)
(* priority strategy (strategies/priority.ts)                              *)

ToLower(name) ==
    CASE name = "M70" -> "m70"
      [] name = "Llama-70B" -> "llama-70b"
      [] name = "Best-Large" -> "best-large"
      [] name = "BEST" -> "best"
      [] OTHER -> name

(* models/aliases: lower-cased id or alias -> canonical id *)
NormalizeModelName(name) ==
    CASE ToLower(name) = "m70" -> "m70"
      [] ToLower(name) = "llama-70b" -> "m70"
      [] OTHER -> name

ResolveModelName(model, aliases) ==
    IF model \in DOMAIN aliases THEN aliases[model]
    ELSE NormalizeModelName(model)

ProviderSupportsModel(p, modelId) ==
    \E mc \in ModelsOf(p) : ToLower(mc.id) = ToLower(modelId)

(* the configured providers that offer the model, in configuration order  *)
FindProvidersForModel(modelId, providers) ==
    LET idx == SelectSeq([i \in 1..Len(providers) |-> i],
                         LAMBDA i : /\ ProviderSupportsModel(providers[i], modelId)
                                    /\ \E mc \in ModelsOf(providers[i]) :
                                          mc.id = modelId)
    IN [j \in 1..Len(idx) |->
          [provider |-> providers[idx[j]],
           model |-> CHOOSE mc \in ModelsOf(providers[idx[j]]) :
                        mc.id = modelId]]

(* config/bundled.ts generic_aliases: tier is an exact tier, minTier a     *)
(* lower bound; Null is a field the entry does not set                     *)
GenericAliases ==
    [a \in {"best", "best-xl", "best-large", "best-medium", "best-small",
            "fast"} |->
       CASE a = "best" -> [tier |-> Null, minTier |-> 1]
         [] a = "best-xl" -> [tier |-> 4, minTier |-> Null]
         [] a = "best-large" -> [tier |-> 3, minTier |-> Null]
         [] a = "best-medium" -> [tier |-> 2, minTier |-> Null]
         [] a = "best-small" -> [tier |-> 1, minTier |-> Null]
         [] a = "fast" -> [tier |-> 1, minTier |-> Null]]

NoAliasConfig == [tier |-> Null, minTier |-> Null]

IsGenericAlias(modelName) == ToLower(modelName) \in DOMAIN GenericAliases

GetGenericAliasConfig(modelName) ==
    IF ToLower(modelName) \in DOMAIN GenericAliases
    THEN GenericAliases[ToLower(modelName)]
    ELSE NoAliasConfig

(* a variant that reads an exact tier as a lower bound *)
MatchesAliasConfig_TierAsMinimum(modelConfig, aliasConfig) ==
    IF aliasConfig.tier # Null THEN modelConfig.qualityTier >= aliasConfig.tier
    ELSE IF aliasConfig.minTier # Null
         THEN modelConfig.qualityTier >= aliasConfig.minTier
    ELSE FALSE

MatchesAliasConfig(modelConfig, aliasConfig) ==
    IF aliasConfig.tier # Null THEN modelConfig.qualityTier = aliasConfig.tier
    ELSE IF aliasConfig.minTier # Null
         THEN modelConfig.qualityTier >= aliasConfig.minTier
    ELSE FALSE

(* providers.flatMap(p => p.definition.models.filter(matches).map(...)) *)
RECURSIVE FindProvidersForGenericAlias(_, _)
FindProvidersForGenericAlias(alias, providers) ==
    IF providers = <<>> \/ GetGenericAliasConfig(alias) = NoAliasConfig
    THEN <<>>
    ELSE LET matching ==
               SelectSeq(Definition(Head(providers)).models,
                         LAMBDA mc : MatchesAliasConfig(
                                        mc, GetGenericAliasConfig(alias)))
         IN [j \in 1..Len(matching) |->
               [provider |-> Head(providers), model |-> matching[j]]]
            \o FindProvidersForGenericAlias(alias, Tail(providers))

(* the matches of selectProvider: by alias predicate or by model id *)
FindMatches(resolvedModel, providers) ==
    IF IsGenericAlias(resolvedModel)
    THEN FindProvidersForGenericAlias(resolvedModel, providers)
    ELSE FindProvidersForModel(resolvedModel, providers)

(* a variant that skips excluded providers only *)
BuildCandidates_NoCooldownCheck(matches, excluded, u, cd, t) ==
    LET keep(mt) == mt.provider \notin excluded
        kept == SelectSeq(matches, keep)
    IN [j \in 1..Len(kept) |->
          [provider |-> kept[j].provider,
           model |-> kept[j].model,
           quota |-> GetQuotaStatus(u, cd, kept[j].provider, kept[j].model.id,
                                    kept[j].model.limits, t),
           priority |-> Priority(kept[j].provider)]]

(* buildCandidates: skip excluded providers and pairs in cooldown *)
BuildCandidates(matches, excluded, u, cd, t) ==
    LET keep(mt) == /\ mt.provider \notin excluded
                    /\ ~IsInCooldown(cd, mt.provider, mt.model.id, t)
        kept == SelectSeq(matches, keep)
    IN [j \in 1..Len(kept) |->
          [provider |-> kept[j].provider,
           model |-> kept[j].model,
           quota |-> GetQuotaStatus(u, cd, kept[j].provider, kept[j].model.id,
                                    kept[j].model.limits, t),
           priority |-> Priority(kept[j].provider)]]

(* [...candidates].sort((a, b) => b.tier - a.tier): a stable sort *)
RECURSIVE InsertByTier(_, _)
InsertByTier(c, sorted) ==
    IF sorted = <<>> THEN <<c>>
    ELSE IF Head(sorted).model.qualityTier >= c.model.qualityTier
         THEN <<Head(sorted)>> \o InsertByTier(c, Tail(sorted))
         ELSE <<c>> \o sorted

RECURSIVE SortByQualityTier(_)
SortByQualityTier(candidates) ==
    IF candidates = <<>> THEN <<>>
    ELSE InsertByTier(candidates[Len(candidates)],
                      SortByQualityTier(SubSeq(candidates, 1, Len(candidates) - 1)))

(* a variant that puts a candidate before those of equal priority *)
RECURSIVE InsertByPriority_TiesFirst(_, _)
InsertByPriority_TiesFirst(c, sorted) ==
    IF sorted = <<>> THEN <<c>>
    ELSE IF Head(sorted).priority < c.priority
         THEN <<Head(sorted)>> \o InsertByPriority_TiesFirst(c, Tail(sorted))
         ELSE <<c>> \o sorted

RECURSIVE InsertByPriority(_, _)
InsertByPriority(c, sorted) ==
    IF sorted = <<>> THEN <<c>>
    ELSE IF Head(sorted).priority <= c.priority
         THEN <<Head(sorted)>> \o InsertByPriority(c, Tail(sorted))
         ELSE <<c>> \o sorted

RECURSIVE SortByPriority(_)
SortByPriority(candidates) ==
    IF candidates = <<>> THEN <<>>
    ELSE InsertByPriority(candidates[Len(candidates)],
                          SortByPriority(SubSeq(candidates, 1, Len(candidates) - 1)))

NoCandidate == [provider |-> "none"]

(* a variant that picks by priority over every tier *)
PrioritySelectProvider_CrossTier(candidates, excluded) ==
    LET available == SelectSeq(candidates, LAMBDA c : c.provider \notin excluded)
    IN IF available = <<>> THEN NoCandidate
       ELSE SortByPriority(available)[1]

PrioritySelectProvider(candidates, excluded) ==
    LET available == SelectSeq(candidates, LAMBDA c : c.provider \notin excluded)
    IN IF available = <<>> THEN NoCandidate
       ELSE LET bestTier == available[1].model.qualityTier
                sameTier == SelectSeq(available,
                                      LAMBDA c : c.model.qualityTier = bestTier)
            IN SortByPriority(sameTier)[1]

SelectProvider(model, excluded, providers, aliases, u, cd, t) ==
    LET resolvedModel == ResolveModelName(model, aliases)
        matches == FindMatches(resolvedModel, providers)
        candidates == BuildCandidates(matches, excluded, u, cd, t)
        selected == PrioritySelectProvider(SortByQualityTier(candidates),
                                           excluded)
    IN IF matches = <<>> THEN [ok |-> FALSE, error |-> "no_matching_providers"]
       ELSE IF candidates = <<>>
            THEN [ok |-> FALSE, error |-> "no_available_candidates"]
       ELSE IF selected = NoCandidate
            THEN [ok |-> FALSE, error |-> "strategy_error"]
       ELSE [ok |-> TRUE, provider |-> selected.provider,
             model |-> selected.model]

(* the store after the reads of selection: isInCooldown for every match    *)
(* that is not excluded, getQuotaStatus for every survivor                 *)
RECURSIVE PruneCooldowns(_, _, _)
PruneCooldowns(cd, pairs, t) ==
    IF pairs = {} THEN cd
    ELSE LET k == CHOOSE x \in pairs : TRUE
         IN PruneCooldowns(GetCooldownStore(cd, k[1], k[2], t), pairs \ {k}, t)

SelectionReads(model, excluded, providers, aliases) ==
    LET matches == FindMatches(ResolveModelName(model, aliases), providers)
    IN {<<matches[i].provider, matches[i].model.id>> :
          i \in {j \in 1..Len(matches) : matches[j].provider \notin excluded}}

SelectionUsage(model, excluded, providers, aliases, u, cd, t) ==
    PruneUsage(u,
               UNION {KeysOf(k[1], k[2]) :
                        k \in {x \in SelectionReads(model, excluded, providers,
                                                    aliases) :
                                 ~IsInCooldown(cd, x[1], x[2], t)}},
               t)

----------------------------------------------------------------------------
(* Spec: the execution driver (router.ts executeCompletion and             *)
(* executeStreamingCompletion; routing/executor.ts executeWithRetry has    *)
(* the same loop).  Each request is a task that is suspended while its     *)
(* upstream call is in flight, while it sleeps, and between the reads and  *)
(* the writes of recordUsage; other requests run in between.               *)

Reqs == {"r1", "r2"}

Configs ==
    {[providers |-> <<"A", "B", "C">>, maxRetries |-> 1,
      initialBackoffMs |-> 1000, maxBackoffMs |-> 30000,
      backoffMultiplier |-> 2, modelAliases |-> <<>>,
      throwOnExhausted |-> TRUE]}

RequestChoices ==
    {[model |-> "m70", messages |-> <<2>>, stream |-> FALSE],
     [model |-> "m70", messages |-> <<30, Null>>, stream |-> TRUE]}

ResponseTokens == {Null, 12}

RetryAfterHeaders == {NoHeader, <<"3", "0">>, <<"1", "2", "0">>, <<"a", "b", "c">>}

NoReq == [model |-> "", messages |-> <<>>, stream |-> FALSE]
NoError == [status |-> 0, retryAfter |-> NoHeader]
NoSel == [provider |-> "none", model |-> "none", limits |-> NoLimits]
NoRec == [existing |-> [w \in Windows |-> NullUsage], tokens |-> 0, t0 |-> Null]
NoResult == [status |-> "none"]
NoHist ==
    [calls |-> <<>>, records |-> <<>>, response |-> Null, failure |-> NoError,
     attempted |-> {}, selections |-> 0]

RECURSIVE Pow(_, _)
Pow(b, e) == IF e = 0 THEN 1 ELSE b * Pow(b, e - 1)

EstimatedTokens(r) == EstimateChatTokens(ContentLengths(req[r].messages))

(* the state a call starts its loop in *)
EnterLoop(r, params) ==
    /\ started' = started + 1
    /\ req' = [req EXCEPT ![r] = params]
    /\ excludedProviders' = [excludedProviders EXCEPT ![r] = {}]
    /\ retryCount' = [retryCount EXCEPT ![r] = 0]
    /\ lastError' = [lastError EXCEPT ![r] = NoError]
    /\ sel' = [sel EXCEPT ![r] = NoSel]
    /\ rec' = [rec EXCEPT ![r] = NoRec]
    /\ wakeAt' = [wakeAt EXCEPT ![r] = Null]
    /\ result' = [result EXCEPT ![r] = NoResult]
    /\ hist' = [hist EXCEPT ![r] = NoHist]
    /\ pc' = [pc EXCEPT ![r] = "select"]
    /\ UNCHANGED <<now, ticks, storeVars, callerVars, clientVars, cfg,
                   failures, retryAfterUntil, markedUntil>>

(* a call of createCompletion / createCompletionStream; the calls are     *)
(* named in the order they are first made                                  *)
StartRequest(r, params) ==
    /\ pc[r] = "idle"
    /\ r = "r2" => pc["r1"] # "idle"
    /\ EnterLoop(r, params)

(* a caller whose call has returned or thrown makes another call *)
NextRequest(r, params) ==
    /\ pc[r] \in {"done", "failed"}
    /\ started < MaxRequests
    /\ EnterLoop(r, params)

(* const selected = await selectProvider(params.model, context) *)
Select(r) ==
    /\ pc[r] = "select"
    /\ LET s == SelectProvider(req[r].model, excludedProviders[r],
                               cfg.providers, cfg.modelAliases, usage,
                               cooldowns, now)
           reads == SelectionReads(req[r].model, excludedProviders[r],
                                   cfg.providers, cfg.modelAliases)
       IN /\ usage' = SelectionUsage(req[r].model, excludedProviders[r],
                                     cfg.providers, cfg.modelAliases, usage,
                                     cooldowns, now)
          /\ cooldowns' = PruneCooldowns(cooldowns, reads, now)
          /\ IF s.ok
             THEN /\ sel' = [sel EXCEPT ![r] =
                               [provider |-> s.provider, model |-> s.model.id,
                                limits |-> s.model.limits]]
                  /\ pc' = [pc EXCEPT ![r] = "check"]
             ELSE /\ sel' = [sel EXCEPT ![r] = NoSel]
                  /\ pc' = [pc EXCEPT ![r] = "exhausted"]
    /\ hist' = [hist EXCEPT ![r].selections = @ + 1]
    /\ UNCHANGED <<now, ticks, callerVars, clientVars, cfg, req,
                   excludedProviders, retryCount, lastError, rec, wakeAt,
                   result, started, failures, retryAfterUntil, markedUntil>>

(* a variant whose pre-flight prune does not exclude the provider *)
PreflightCheck_NoExclude(r) ==
    /\ pc[r] = "check"
    /\ LET p == sel[r].provider
           m == sel[r].model
           canRequest == CanMakeRequest(usage, cooldowns, p, m, sel[r].limits,
                                        EstimatedTokens(r), now)
       IN /\ usage' = CanMakeRequestUsage(usage, cooldowns, p, m, now)
          /\ cooldowns' = GetCooldownStore(cooldowns, p, m, now)
          /\ IF ~canRequest
             THEN /\ hist' = [hist EXCEPT ![r].attempted = @ \cup {MakeKey(p, m)}]
                  /\ pc' = [pc EXCEPT ![r] = "select"]
             ELSE /\ hist' = [hist EXCEPT ![r].calls = Append(@, p)]
                  /\ pc' = [pc EXCEPT ![r] = "inflight"]
    /\ UNCHANGED <<now, ticks, callerVars, clientVars, cfg, req, retryCount,
                   lastError, sel, rec, wakeAt, result, started, failures,
                   retryAfterUntil, markedUntil, excludedProviders>>

(* a variant that charges a retry for a pre-flight prune *)
PreflightCheck_ChargeRetry(r) ==
    /\ pc[r] = "check"
    /\ LET p == sel[r].provider
           m == sel[r].model
           canRequest == CanMakeRequest(usage, cooldowns, p, m, sel[r].limits,
                                        EstimatedTokens(r), now)
       IN /\ usage' = CanMakeRequestUsage(usage, cooldowns, p, m, now)
          /\ cooldowns' = GetCooldownStore(cooldowns, p, m, now)
          /\ IF ~canRequest
             THEN /\ excludedProviders' =
                        [excludedProviders EXCEPT ![r] = @ \cup {p}]
                  /\ retryCount' = [retryCount EXCEPT ![r] = @ + 1]
                  /\ hist' = [hist EXCEPT ![r].attempted = @ \cup {MakeKey(p, m)}]
                  /\ pc' = [pc EXCEPT ![r] =
                              IF retryCount[r] + 1 <= cfg.maxRetries
                              THEN "select" ELSE "exhausted"]
             ELSE /\ hist' = [hist EXCEPT ![r].calls = Append(@, p)]
                  /\ pc' = [pc EXCEPT ![r] = "inflight"]
                  /\ UNCHANGED <<excludedProviders, retryCount>>
    /\ UNCHANGED <<now, ticks, callerVars, clientVars, cfg, req, lastError,
                   sel, rec, wakeAt, result, started, failures, retryAfterUntil, markedUntil>>

(* canMakeRequest for the selection; when it passes the upstream call is   *)
(* issued, when it fails the provider is excluded and the loop continues   *)
PreflightCheck(r) ==
    /\ pc[r] = "check"
    /\ LET p == sel[r].provider
           m == sel[r].model
           canRequest == CanMakeRequest(usage, cooldowns, p, m, sel[r].limits,
                                        EstimatedTokens(r), now)
       IN /\ usage' = CanMakeRequestUsage(usage, cooldowns, p, m, now)
          /\ cooldowns' = GetCooldownStore(cooldowns, p, m, now)
          /\ IF ~canRequest
             THEN /\ excludedProviders' =
                        [excludedProviders EXCEPT ![r] = @ \cup {p}]
                  /\ hist' = [hist EXCEPT ![r].attempted = @ \cup {MakeKey(p, m)}]
                  /\ pc' = [pc EXCEPT ![r] = "select"]
             ELSE /\ hist' = [hist EXCEPT ![r].calls = Append(@, p)]
                  /\ pc' = [pc EXCEPT ![r] = "inflight"]
                  /\ UNCHANGED excludedProviders
    /\ UNCHANGED <<now, ticks, callerVars, clientVars, cfg, req, retryCount,
                   lastError, sel, rec, wakeAt, result, started, failures,
                   retryAfterUntil, markedUntil>>

(* tracker.recordUsage(provider, model, tokens) up to its first await:     *)
(* the three incrementUsage calls have read their keys                     *)
BeginRecordUsage(r, tokens, totalTokens) ==
    /\ rec' = [rec EXCEPT ![r] =
                 [existing |-> RecordUsageRead(usage, sel[r].provider,
                                               sel[r].model, now),
                  tokens |-> tokens, t0 |-> now]]
    /\ usage' = PruneUsage(usage, KeysOf(sel[r].provider, sel[r].model), now)
    /\ hist' = [hist EXCEPT ![r].records =
                  Append(@, [provider |-> sel[r].provider,
                             model |-> sel[r].model, tokens |-> tokens]),
                              ![r].response = totalTokens]
    /\ pc' = [pc EXCEPT ![r] = "recording"]

(* the upstream call returns a response (or hands the stream over) *)
UpstreamSuccess(r, totalTokens) ==
    /\ pc[r] = "inflight"
    /\ IF req[r].stream
       THEN /\ pc' = [pc EXCEPT ![r] = "latency"]
            /\ UNCHANGED <<rec, usage, hist>>
       ELSE BeginRecordUsage(r, IF totalTokens = Null THEN 0 ELSE totalTokens,
                             totalTokens)
    /\ UNCHANGED <<now, ticks, cooldowns, callerVars, clientVars, cfg, req,
                   excludedProviders, retryCount, lastError, sel, wakeAt,
                   result, started, failures, retryAfterUntil, markedUntil>>

(* streaming: after `await stateStore.updateLatency(...)` the estimate is  *)
(* recorded                                                                *)
StreamRecordUsage(r) ==
    /\ pc[r] = "latency"
    /\ BeginRecordUsage(r, EstimatedTokens(r), Null)
    /\ UNCHANGED <<now, ticks, cooldowns, callerVars, clientVars, cfg, req,
                   excludedProviders, retryCount, lastError, sel, wakeAt,
                   result, started, failures, retryAfterUntil, markedUntil>>

(* the call returns or throws: its locals are gone *)
ReturnFrom(r) ==
    /\ excludedProviders' = [excludedProviders EXCEPT ![r] = {}]
    /\ retryCount' = [retryCount EXCEPT ![r] = 0]
    /\ lastError' = [lastError EXCEPT ![r] = NoError]
    /\ sel' = [sel EXCEPT ![r] = NoSel]
    /\ rec' = [rec EXCEPT ![r] = NoRec]
    /\ req' = [req EXCEPT ![r] = NoReq]
    /\ hist' = [hist EXCEPT ![r] = NoHist]

(* the writes of recordUsage, and the return to the caller *)
FinishRecordUsage(r) ==
    /\ pc[r] = "recording"
    /\ usage' = RecordUsageWrite(usage, sel[r].provider, sel[r].model,
                                 rec[r].tokens, rec[r].existing, rec[r].t0,
                                 now)
    /\ result' = [result EXCEPT ![r] =
                    [status |-> "ok", provider |-> sel[r].provider,
                     model |-> sel[r].model, retryCount |-> retryCount[r]]]
    /\ pc' = [pc EXCEPT ![r] = "done"]
    /\ ReturnFrom(r)
    /\ UNCHANGED <<now, ticks, cooldowns, callerVars, clientVars, cfg,
                   wakeAt, started, failures, retryAfterUntil, markedUntil>>

(* history: the upstream call of the selected pair failed with `error` *)
NoteFailure(r, error) ==
    hist' = [hist EXCEPT
               ![r].failure = error,
               ![r].attempted = @ \cup {MakeKey(sel[r].provider, sel[r].model)}]

(* a variant that does not charge a retry for a 429 *)
UpstreamRateLimited_NoCharge(r, retryAfter) ==
    /\ pc[r] = "inflight"
    /\ failures < MaxFailures
    /\ failures' = failures + 1
    /\ LET error == [status |-> 429, retryAfter |-> retryAfter]
           resetAt == ParseRateLimitError(error, now)
       IN /\ lastError' = [lastError EXCEPT ![r] = error]
          /\ cooldowns' = MarkRateLimited(cooldowns, sel[r].provider,
                                          sel[r].model, resetAt, now)
          /\ markedUntil' =
                [markedUntil EXCEPT
                   ![MakeKey(sel[r].provider, sel[r].model)] =
                       IF resetAt # Null THEN resetAt
                       ELSE now + DefaultCooldownMs]
          /\ retryAfterUntil' =
                IF resetAt = Null THEN retryAfterUntil
                ELSE [retryAfterUntil EXCEPT
                        ![MakeKey(sel[r].provider, sel[r].model)] =
                            Max(@, resetAt)]
    /\ excludedProviders' =
          [excludedProviders EXCEPT ![r] = @ \cup {sel[r].provider}]
    /\ pc' = [pc EXCEPT ![r] = "select"]
    /\ NoteFailure(r, [status |-> 429, retryAfter |-> retryAfter])
    /\ UNCHANGED <<now, ticks, usage, callerVars, clientVars, cfg, req, sel,
                   rec, wakeAt, result, started, retryCount>>

(* a variant that records usage for the failed call *)
UpstreamRateLimited_Records(r, retryAfter) ==
    /\ pc[r] = "inflight"
    /\ failures < MaxFailures
    /\ failures' = failures + 1
    /\ LET error == [status |-> 429, retryAfter |-> retryAfter]
           resetAt == ParseRateLimitError(error, now)
       IN /\ lastError' = [lastError EXCEPT ![r] = error]
          /\ cooldowns' = MarkRateLimited(cooldowns, sel[r].provider,
                                          sel[r].model, resetAt, now)
          /\ markedUntil' =
                [markedUntil EXCEPT
                   ![MakeKey(sel[r].provider, sel[r].model)] =
                       IF resetAt # Null THEN resetAt
                       ELSE now + DefaultCooldownMs]
          /\ retryAfterUntil' =
                IF resetAt = Null THEN retryAfterUntil
                ELSE [retryAfterUntil EXCEPT
                        ![MakeKey(sel[r].provider, sel[r].model)] =
                            Max(@, resetAt)]
    /\ usage' = RecordUsage(usage, sel[r].provider, sel[r].model, 0, now)
    /\ excludedProviders' =
          [excludedProviders EXCEPT ![r] = @ \cup {sel[r].provider}]
    /\ retryCount' = [retryCount EXCEPT ![r] = @ + 1]
    /\ pc' = [pc EXCEPT ![r] =
                IF retryCount[r] + 1 <= cfg.maxRetries THEN "select"
                ELSE "exhausted"]
    /\ NoteFailure(r, [status |-> 429, retryAfter |-> retryAfter])
    /\ UNCHANGED <<now, ticks, callerVars, clientVars, cfg, req, sel,
                   rec, wakeAt, result, started>>

(* the upstream call fails with status 429: mark, exclude, charge one      *)
(* retry, continue at once                                                 *)
(* a variant that leaves the rate-limited provider selectable *)
UpstreamRateLimited_NoExclude(r, retryAfter) ==
    /\ pc[r] = "inflight"
    /\ failures < MaxFailures
    /\ failures' = failures + 1
    /\ LET error == [status |-> 429, retryAfter |-> retryAfter]
           resetAt == ParseRateLimitError(error, now)
       IN /\ lastError' = [lastError EXCEPT ![r] = error]
          /\ cooldowns' = MarkRateLimited(cooldowns, sel[r].provider,
                                          sel[r].model, resetAt, now)
          /\ markedUntil' =
                [markedUntil EXCEPT
                   ![MakeKey(sel[r].provider, sel[r].model)] =
                       IF resetAt # Null THEN resetAt
                       ELSE now + DefaultCooldownMs]
          /\ retryAfterUntil' =
                IF resetAt = Null THEN retryAfterUntil
                ELSE [retryAfterUntil EXCEPT
                        ![MakeKey(sel[r].provider, sel[r].model)] =
                            Max(@, resetAt)]
    /\ retryCount' = [retryCount EXCEPT ![r] = @ + 1]
    /\ pc' = [pc EXCEPT ![r] =
                IF retryCount[r] + 1 <= cfg.maxRetries THEN "select"
                ELSE "exhausted"]
    /\ NoteFailure(r, [status |-> 429, retryAfter |-> retryAfter])
    /\ UNCHANGED <<now, ticks, usage, callerVars, clientVars, cfg, req, sel,
                   rec, wakeAt, result, started, excludedProviders>>

UpstreamRateLimited(r, retryAfter) ==
    /\ pc[r] = "inflight"
    /\ IsRateLimitError([status |-> 429, retryAfter |-> retryAfter])
    /\ failures < MaxFailures
    /\ failures' = failures + 1
    /\ LET error == [status |-> 429, retryAfter |-> retryAfter]
           resetAt == ParseRateLimitError(error, now)
       IN /\ lastError' = [lastError EXCEPT ![r] = error]
          /\ cooldowns' = MarkRateLimited(cooldowns, sel[r].provider,
                                          sel[r].model, resetAt, now)
          /\ markedUntil' =
                [markedUntil EXCEPT
                   ![MakeKey(sel[r].provider, sel[r].model)] =
                       IF resetAt # Null THEN resetAt
                       ELSE now + DefaultCooldownMs]
          /\ retryAfterUntil' =
                IF resetAt = Null THEN retryAfterUntil
                ELSE [retryAfterUntil EXCEPT
                        ![MakeKey(sel[r].provider, sel[r].model)] =
                            Max(@, resetAt)]
    /\ excludedProviders' =
          [excludedProviders EXCEPT ![r] = @ \cup {sel[r].provider}]
    /\ retryCount' = [retryCount EXCEPT ![r] = @ + 1]
    /\ pc' = [pc EXCEPT ![r] =
                IF retryCount[r] + 1 <= cfg.maxRetries THEN "select"
                ELSE "exhausted"]
    /\ NoteFailure(r, [status |-> 429, retryAfter |-> retryAfter])
    /\ UNCHANGED <<now, ticks, usage, callerVars, clientVars, cfg, req, sel,
                   rec, wakeAt, result, started>>

(* a variant without the Math.min against maxBackoffMs *)
BackoffMs_Uncapped(n) ==
    cfg.initialBackoffMs * Pow(cfg.backoffMultiplier, n - 1)

BackoffMs(n) ==
    Min(cfg.initialBackoffMs * Pow(cfg.backoffMultiplier, n - 1),
        cfg.maxBackoffMs)

(* the upstream call fails with any other error: exclude, charge one       *)
(* retry, sleep the backoff when a retry is left                           *)
(* a variant that does not exclude the provider whose call failed *)
UpstreamFailed_NoExclude(r, status) ==
    /\ pc[r] = "inflight"
    /\ ~IsRateLimitError([status |-> status, retryAfter |-> NoHeader])
    /\ failures < MaxFailures
    /\ failures' = failures + 1
    /\ lastError' = [lastError EXCEPT ![r] =
                       [status |-> status, retryAfter |-> NoHeader]]
    /\ retryCount' = [retryCount EXCEPT ![r] = @ + 1]
    /\ IF retryCount[r] + 1 <= cfg.maxRetries
       THEN /\ wakeAt' = [wakeAt EXCEPT ![r] = now + BackoffMs(retryCount[r] + 1)]
            /\ pc' = [pc EXCEPT ![r] = "sleep"]
       ELSE /\ pc' = [pc EXCEPT ![r] = "exhausted"]
            /\ UNCHANGED wakeAt
    /\ NoteFailure(r, [status |-> status, retryAfter |-> NoHeader])
    /\ UNCHANGED <<now, ticks, storeVars, callerVars, clientVars, cfg, req,
                   sel, rec, result, started, retryAfterUntil, markedUntil,
                   excludedProviders>>

UpstreamFailed(r, status) ==
    /\ pc[r] = "inflight"
    /\ ~IsRateLimitError([status |-> status, retryAfter |-> NoHeader])
    /\ failures < MaxFailures
    /\ failures' = failures + 1
    /\ lastError' = [lastError EXCEPT ![r] =
                       [status |-> status, retryAfter |-> NoHeader]]
    /\ excludedProviders' =
          [excludedProviders EXCEPT ![r] = @ \cup {sel[r].provider}]
    /\ retryCount' = [retryCount EXCEPT ![r] = @ + 1]
    /\ IF retryCount[r] + 1 <= cfg.maxRetries
       THEN /\ wakeAt' = [wakeAt EXCEPT ![r] = now + BackoffMs(retryCount[r] + 1)]
            /\ pc' = [pc EXCEPT ![r] = "sleep"]
       ELSE /\ pc' = [pc EXCEPT ![r] = "exhausted"]
            /\ UNCHANGED wakeAt
    /\ NoteFailure(r, [status |-> status, retryAfter |-> NoHeader])
    /\ UNCHANGED <<now, ticks, storeVars, callerVars, clientVars, cfg, req,
                   sel, rec, result, started, retryAfterUntil, markedUntil>>

(* setTimeout fires *)
Wake(r) ==
    /\ pc[r] = "sleep"
    /\ now >= wakeAt[r]
    /\ wakeAt' = [wakeAt EXCEPT ![r] = Null]
    /\ pc' = [pc EXCEPT ![r] = "select"]
    /\ UNCHANGED <<now, ticks, storeVars, callerVars, clientVars, cfg, req,
                   excludedProviders, retryCount, lastError, sel, rec, result,
                   hist, started, failures, retryAfterUntil, markedUntil>>

(* the pairs getCooldownUntil is called for: the models of a provider in   *)
(* order, up to the first one with a cooldown                              *)
RECURSIVE ReadPrefix(_, _, _, _)
ReadPrefix(cd, p, models, t) ==
    IF models = <<>> THEN {}
    ELSE {MakeKey(p, Head(models).id)}
         \cup (IF GetCooldownUntil(cd, p, Head(models).id, t) # Null THEN {}
               ELSE ReadPrefix(cd, p, Tail(models), t))

ExhaustedReads(cd, providers, t) ==
    UNION {ReadPrefix(cd, providers[i], Definition(providers[i]).models, t) :
              i \in 1..Len(providers)}

(* for each provider the cooldown of its first model that has one *)
RECURSIVE FirstCooldown(_, _, _, _)
FirstCooldown(cd, p, models, t) ==
    IF models = <<>> THEN Null
    ELSE IF GetCooldownUntil(cd, p, Head(models).id, t) # Null
         THEN GetCooldownUntil(cd, p, Head(models).id, t)
         ELSE FirstCooldown(cd, p, Tail(models), t)

RECURSIVE MinOf(_)
MinOf(S) ==
    LET x == CHOOSE y \in S : TRUE IN
    IF S = {x} THEN x ELSE Min(x, MinOf(S \ {x}))

FindEarliestReset(cd, providers, t) ==
    LET valid == {FirstCooldown(cd, providers[i], Definition(providers[i]).models, t) :
                     i \in 1..Len(providers)} \ {Null}
    IN IF valid # {} THEN MinOf(valid) ELSE Null

(* `new Error("No providers available")` *)
NoProvidersError ==
    [status |-> 0, retryAfter |-> NoHeader, message |-> "No providers available"]

(* a variant that propagates the last error whatever throwOnExhausted says *)
Exhausted_PropagatesLastError(r) ==
    /\ pc[r] = "exhausted"
    /\ cooldowns' = PruneCooldowns(cooldowns,
                        ExhaustedReads(cooldowns, cfg.providers, now), now)
    /\ result' = [result EXCEPT ![r] =
          [status |-> "error",
           error |-> IF lastError[r] # NoError THEN lastError[r]
                     ELSE NoProvidersError]]
    /\ pc' = [pc EXCEPT ![r] = "failed"]
    /\ ReturnFrom(r)
    /\ UNCHANGED <<now, ticks, usage, callerVars, clientVars, cfg,
                   wakeAt, started, failures, retryAfterUntil, markedUntil>>

(* after the loop: gather the cooldowns and throw *)
Exhausted(r) ==
    /\ pc[r] = "exhausted"
    /\ cooldowns' = PruneCooldowns(cooldowns,
                        ExhaustedReads(cooldowns, cfg.providers, now), now)
    /\ result' = [result EXCEPT ![r] =
          IF cfg.throwOnExhausted
          THEN [status |-> "AllProvidersExhausted",
                attemptedProviders |-> excludedProviders[r],
                earliestReset |-> FindEarliestReset(cooldowns, cfg.providers, now)]
          ELSE [status |-> "error",
                error |-> IF lastError[r] # NoError THEN lastError[r]
                          ELSE NoProvidersError]]
    /\ pc' = [pc EXCEPT ![r] = "failed"]
    /\ ReturnFrom(r)
    /\ UNCHANGED <<now, ticks, usage, callerVars, clientVars, cfg,
                   wakeAt, started, failures, retryAfterUntil, markedUntil>>

(* the clock moves on while the tasks are suspended *)
Advance ==
    /\ ticks < MaxAdvances
    /\ now' = now + 60000
    /\ ticks' = ticks + 1
    /\ UNCHANGED <<storeVars, callerVars, clientVars, driverVars>>

DriverInit(configs) ==
    /\ now = StartTime /\ ticks = 0
    /\ EmptyStore /\ IdleCallers /\ IdleClient
    /\ cfg \in configs
    /\ pc = [r \in Reqs |-> "idle"]
    /\ req = [r \in Reqs |-> NoReq]
    /\ excludedProviders = [r \in Reqs |-> {}]
    /\ retryCount = [r \in Reqs |-> 0]
    /\ lastError = [r \in Reqs |-> NoError]
    /\ sel = [r \in Reqs |-> NoSel]
    /\ rec = [r \in Reqs |-> NoRec]
    /\ wakeAt = [r \in Reqs |-> Null]
    /\ result = [r \in Reqs |-> NoResult]
    /\ hist = [r \in Reqs |-> NoHist]
    /\ started = 0 /\ failures = 0
    /\ retryAfterUntil = [k \in Pairs |-> Null]
    /\ markedUntil = [k \in Pairs |-> Null]

Init == DriverInit(Configs)

Next ==
    \/ \E r \in Reqs, params \in RequestChoices : StartRequest(r, params)
    \/ \E r \in Reqs : Select(r)
    \/ \E r \in Reqs : PreflightCheck(r)
    \/ \E r \in Reqs, totalTokens \in ResponseTokens :
          UpstreamSuccess(r, totalTokens)
    \/ \E r \in Reqs : StreamRecordUsage(r)
    \/ \E r \in Reqs : FinishRecordUsage(r)
    \/ \E r \in Reqs, retryAfter \in RetryAfterHeaders :
          UpstreamRateLimited(r, retryAfter)
    \/ \E r \in Reqs : UpstreamFailed(r, 500)
    \/ \E r \in Reqs : Wake(r)
    \/ \E r \in Reqs : Exhausted(r)
    \/ Advance

Spec == Init /\ [][Next]_vars

----------------------------------------------------------------------------
(* CooldownSpec: the driver against upstreams that answer every call with  *)
(* 429, with callers that call again after a failure.                      *)

CooldownConfigs ==
    {[providers |-> <<"A", "B">>, maxRetries |-> 0,
      initialBackoffMs |-> 1000, maxBackoffMs |-> 30000,
      backoffMultiplier |-> 2, modelAliases |-> <<>>,
      throwOnExhausted |-> TRUE]}

CooldownInit == DriverInit(CooldownConfigs)

CooldownNext ==
    \/ \E r \in Reqs, params \in RequestChoices : StartRequest(r, params)
    \/ \E r \in Reqs, params \in RequestChoices : NextRequest(r, params)
    \/ \E r \in Reqs : Select(r)
    \/ \E r \in Reqs : PreflightCheck(r)
    \/ \E r \in Reqs, retryAfter \in RetryAfterHeaders :
          UpstreamRateLimited(r, retryAfter)
    \/ \E r \in Reqs : Exhausted(r)
    \/ Advance

CooldownSpec == CooldownInit /\ [][CooldownNext]_vars

(* C3: a provider that answered 429 with Retry-After: N at time start is   *)
(* not selected again for that model before start + N seconds have passed, *)
(* whatever other 429 answers arrive for the pair in between.              *)
C3_RetryAfterHonoured ==
    [][\A r \in Reqs :
          (pc[r] = "select" /\ pc'[r] = "check")
             => now >= retryAfterUntil[MakeKey(sel'[r].provider, sel'[r].model)]]_vars


VisibleUsage(u, t) ==
    [k \in UsageKeys |-> UsageByWindow(u, k[1], k[2], k[3], t)]

(* C2: a request has at most one upstream call per loop iteration (every   *)
(* call but the one in progress has been charged one retry), and at most   *)
(* max-retries + 1 upstream calls in all.                                  *)
C2_UpstreamCallBound ==
    \A r \in Reqs :
        /\ Len(hist[r].calls) <= cfg.maxRetries + 1
        /\ Len(hist[r].calls) <= retryCount[r] + 1
        /\ pc[r] \in {"select", "check", "sleep", "exhausted"}
              => Len(hist[r].calls) <= retryCount[r]

C2_Witness ==
    \E r \in Reqs :
        /\ pc[r] = "exhausted"
        /\ Len(hist[r].calls) = cfg.maxRetries + 1
        /\ \E i \in 1..Len(cfg.providers) :
              cfg.providers[i] \notin excludedProviders[r]

(* C5: when canMakeRequest is false for the selected pair, the iteration   *)
(* makes no upstream call, adds the provider to the excluded set, leaves   *)
(* the retry counter as it was and goes on to the next selection.          *)
C5_PreflightPrune ==
    [][\A r \in Reqs :
          (/\ pc[r] = "check" /\ pc'[r] # "check"
           /\ ~CanMakeRequest(usage, cooldowns, sel[r].provider, sel[r].model,
                              sel[r].limits, EstimatedTokens(r), now))
          => /\ hist'[r].calls = hist[r].calls
             /\ excludedProviders'[r] =
                    excludedProviders[r] \cup {sel[r].provider}
             /\ retryCount'[r] = retryCount[r]
             /\ pc'[r] = "select"]_vars

C5_Witness ==
    \E r \in Reqs :
        /\ pc[r] = "select"
        /\ sel[r].provider \in excludedProviders[r]
        /\ hist[r].calls = <<>>
        /\ retryCount[r] = 0

(* C6: a 429 from the selected pair marks the pair rate limited (until     *)
(* now + Retry-After seconds when the header is an integer, for the        *)
(* default cooldown otherwise), adds the provider to the excluded set,     *)
(* adds exactly one to the retry counter and goes to the next selection    *)
(* without sleeping.                                                       *)
C6_RateLimitHandling ==
    [][\A r \in Reqs :
          (pc[r] = "inflight" /\ pc'[r] \in {"select", "sleep", "exhausted"}
           /\ lastError'[r].status = 429)
          => LET h == lastError'[r].retryAfter
                 isInteger == h # NoHeader
                              /\ \A i \in 1..Len(h) : h[i] \in Digits
                 seconds == SumOver(1..Len(h),
                               [i \in 1..Len(h) |->
                                   DigitValue(h[i]) * Pow(10, Len(h) - i)])
             IN /\ cooldowns'[MakeKey(sel[r].provider, sel[r].model)] =
                      IF isInteger THEN now + (seconds * 1000)
                      ELSE now + DefaultCooldownMs
                /\ excludedProviders'[r] =
                      excludedProviders[r] \cup {sel[r].provider}
                /\ retryCount'[r] = retryCount[r] + 1
                /\ wakeAt'[r] = Null
                /\ pc'[r] = IF retryCount'[r] <= cfg.maxRetries THEN "select"
                            ELSE "exhausted"]_vars

C6_Witness ==
    \E r \in Reqs :
        /\ pc[r] = "select"
        /\ lastError[r] = [status |-> 429, retryAfter |-> <<"1", "2", "0">>]
        /\ retryCount[r] = 1
        /\ \E k \in Pairs : k[1] \in excludedProviders[r]
                             /\ cooldowns[k] = now + 120000

(* C9: recordUsage is called on success only: no usage is recorded by a    *)
(* request that has not had a successful call, and every step but the      *)
(* write of a successful call leaves every usage counter as it was.        *)
C9_RecordOnSuccessOnly ==
    /\ [](\A r \in Reqs : hist[r].records # <<>> => pc[r] = "recording")
    /\ [][(now' = now /\ ~\E r \in Reqs : pc[r] = "recording" /\ pc'[r] = "done")
            => VisibleUsage(usage', now) = VisibleUsage(usage, now)]_vars

C9_Witness ==
    \E r \in Reqs :
        /\ pc[r] = "exhausted"
        /\ retryCount[r] = 2
        /\ hist[r].records = <<>>
        /\ \A q \in Reqs \ {r} : pc[q] = "idle"
        /\ \A k \in UsageKeys : usage[k] = NoEntry

(* C10: a successful request calls recordUsage exactly once, for the pair  *)
(* that served it, with the response's total tokens (non-streaming) or the *)
(* estimate (streaming), and the minute, hour and day counters of the pair *)
(* each rise by exactly one request.                                       *)
C10_SuccessRecordedOnce ==
    [][\A r \in Reqs :
          (pc[r] = "recording" /\ pc'[r] = "done")
          => /\ hist[r].records =
                   <<[provider |-> hist[r].calls[Len(hist[r].calls)],
                      model |-> sel[r].model,
                      tokens |-> IF req[r].stream THEN EstimatedTokens(r)
                                 ELSE IF hist[r].response = Null THEN 0
                                 ELSE hist[r].response]>>
             /\ \A w \in Windows :
                   GetWindowStart(w, rec[r].t0) = GetWindowStart(w, now)
                   => UsageByWindow(usage', sel[r].provider, sel[r].model, w, now).requests
                        = UsageByWindow(usage, sel[r].provider, sel[r].model, w, now).requests + 1]_vars


----------------------------------------------------------------------------
(* ExhaustionSpec: the driver against upstreams that fail every call, under *)
(* three configurations: two providers and no retry; provider A alone with *)
(* two retries; two providers with two retries, a backoff that reaches its *)
(* cap at the second retry, and throwOnExhausted off.                      *)

ExhaustionConfigs ==
    {[providers |-> <<"A", "B">>, maxRetries |-> 0,
      initialBackoffMs |-> 1000, maxBackoffMs |-> 30000,
      backoffMultiplier |-> 2, modelAliases |-> <<>>,
      throwOnExhausted |-> TRUE],
     [providers |-> <<"A">>, maxRetries |-> 2,
      initialBackoffMs |-> 1000, maxBackoffMs |-> 30000,
      backoffMultiplier |-> 2, modelAliases |-> <<>>,
      throwOnExhausted |-> TRUE],
     [providers |-> <<"A", "B">>, maxRetries |-> 2,
      initialBackoffMs |-> 1000, maxBackoffMs |-> 1500,
      backoffMultiplier |-> 2, modelAliases |-> <<>>,
      throwOnExhausted |-> FALSE]}

ExhaustionInit == DriverInit(ExhaustionConfigs)

ExhaustionNext ==
    \/ \E r \in Reqs, params \in RequestChoices : StartRequest(r, params)
    \/ \E r \in Reqs : Select(r)
    \/ \E r \in Reqs : PreflightCheck(r)
    \/ \E r \in Reqs, retryAfter \in RetryAfterHeaders :
          UpstreamRateLimited(r, retryAfter)
    \/ \E r \in Reqs : UpstreamFailed(r, 500)
    \/ \E r \in Reqs : Wake(r)
    \/ \E r \in Reqs : Exhausted(r)
    \/ Advance

ExhaustionSpec == ExhaustionInit /\ [][ExhaustionNext]_vars

C12_EarliestResetOfAttempted ==
    [][\A r \in Reqs :
          (pc[r] = "exhausted" /\ pc'[r] = "failed" /\ cfg.throwOnExhausted)
          => LET live == {GetCooldown(cooldowns, k[1], k[2], now) :
                             k \in hist[r].attempted} \ {Null}
             IN result'[r].earliestReset =
                   IF live = {} THEN Null
                   ELSE CHOOSE x \in live : \A y \in live : x <= y]_vars


(* C13: with provider A alone, answering 429 without Retry-After, and two  *)
(* retries allowed, a request (the only one, ending before the cooldown    *)
(* lapses) makes at most three attempts and exactly one upstream call, to  *)
(* A, and fails with AllProvidersExhausted, attempted [A], earliest reset  *)
(* the time of the first mark plus the default cooldown (markedUntil holds *)
(* that time for the one mark of the scenario, which had no resetAt).      *)
C13_SingleProviderExhausted ==
    [][\A r \in Reqs :
          (/\ pc[r] = "exhausted" /\ pc'[r] # "exhausted"
           /\ cfg.providers = <<"A">> /\ cfg.maxRetries = 2
           /\ cfg.throwOnExhausted
           /\ started = 1
           /\ hist[r].failure = [status |-> 429, retryAfter |-> NoHeader]
           /\ now <= markedUntil[MakeKey("A", "m70")])
          => /\ hist[r].selections <= 3
             /\ hist[r].calls = <<"A">>
             /\ result'[r] =
                   [status |-> "AllProvidersExhausted",
                    attemptedProviders |-> {"A"},
                    earliestReset |-> markedUntil[MakeKey("A", "m70")]]]_vars

C13_Witness ==
    \E r \in Reqs :
        /\ pc[r] = "failed"
        /\ cfg.providers = <<"A">> /\ cfg.maxRetries = 2
        /\ started = 1 /\ failures = 1
        /\ cooldowns[MakeKey("A", "m70")] = StartTime + DefaultCooldownMs
        /\ result[r] = [status |-> "AllProvidersExhausted",
                        attemptedProviders |-> {"A"},
                        earliestReset |-> StartTime + DefaultCooldownMs]


(* C14: when the only provider of a request has just answered 429, the     *)
(* request makes no further attempt: the provider is excluded, the next    *)
(* selection finds no candidate and leaves the loop, no pre-flight check   *)
(* and no upstream call follow, and the retry counter keeps the value the  *)
(* 429 gave it.                                                            *)
C14_NoAttemptAfterOnlyCandidateLimited ==
    [][\A r \in Reqs :
          (/\ cfg.providers = <<"A">>
           /\ pc[r] \in {"select", "exhausted"}
           /\ lastError[r] # NoError
           /\ lastError[r].status = 429)
          => /\ retryCount[r] = 1
             /\ hist[r].calls = <<"A">>
             /\ pc'[r] \in {pc[r], "exhausted", "failed"}
             /\ pc'[r] # "failed"
                  => /\ retryCount'[r] = retryCount[r]
                     /\ hist'[r].calls = hist[r].calls
                     /\ hist'[r].attempted = hist[r].attempted
             /\ (pc[r] = "select" /\ pc'[r] = "exhausted") => sel'[r] = NoSel]_vars

C14_Witness ==
    \E r \in Reqs :
        /\ cfg.providers = <<"A">> /\ cfg.maxRetries = 2
        /\ pc[r] = "exhausted"
        /\ lastError[r] = [status |-> 429, retryAfter |-> NoHeader]
        /\ retryCount[r] = 1
        /\ hist[r].selections = 2
        /\ hist[r].calls = <<"A">>
        /\ sel[r] = NoSel

(* C14 as stated: after the only candidate was rate-limited the attempts   *)
(* go on, each pruned pre-flight and charged one retry, so the request     *)
(* ends only once the retry counter has exceeded max-retries.              *)
C14_RetriesUntilMaxExceeded ==
    [][\A r \in Reqs :
          (/\ cfg.providers = <<"A">>
           /\ pc[r] = "exhausted" /\ pc'[r] = "failed"
           /\ lastError[r] # NoError
           /\ lastError[r].status = 429)
          => retryCount[r] > cfg.maxRetries]_vars


(* C15: a failure other than a 429 that brings the retry counter to n,     *)
(* with a retry left, puts the request to sleep for                        *)
(* min(initialBackoffMs * backoffMultiplier^(n-1), maxBackoffMs), never    *)
(* longer than maxBackoffMs, and the next selection waits for that sleep.  *)
C15_BackoffBounded ==
    [][\A r \in Reqs :
          /\ (/\ pc[r] = "inflight"
              /\ pc'[r] \in {"select", "sleep", "exhausted"}
              /\ lastError'[r].status # 429
              /\ retryCount'[r] <= cfg.maxRetries)
             => LET n == retryCount'[r]
                    raw == IF n = 1 THEN cfg.initialBackoffMs
                           ELSE IF n = 2
                                THEN cfg.initialBackoffMs * cfg.backoffMultiplier
                                ELSE cfg.initialBackoffMs * cfg.backoffMultiplier
                                         * cfg.backoffMultiplier
                    expected == IF raw <= cfg.maxBackoffMs THEN raw
                                ELSE cfg.maxBackoffMs
                IN /\ n = retryCount[r] + 1
                   /\ n \in 1..3
                   /\ pc'[r] = "sleep"
                   /\ wakeAt'[r] - now = expected
                   /\ wakeAt'[r] - now <= cfg.maxBackoffMs
          /\ (pc[r] = "sleep" /\ pc'[r] # "sleep")
             => pc'[r] = "select" /\ now >= wakeAt[r]]_vars

C15_Witness ==
    \E r \in Reqs :
        /\ pc[r] = "sleep"
        /\ retryCount[r] = 2
        /\ lastError[r].status = 500
        /\ cfg.initialBackoffMs * cfg.backoffMultiplier > cfg.maxBackoffMs
        /\ Len(hist[r].calls) = 2
        /\ wakeAt[r] = now + cfg.maxBackoffMs


(* the positions in the log of the markRateLimited and clearCooldown calls *)
(* for (p, m)                                                              *)
CooldownOps(p, m) ==
    {i \in 1..Len(log) : /\ log[i].op \in {"markRateLimited", "clearCooldown"}
                         /\ log[i].provider = p /\ log[i].model = m}

LastCooldownOp(p, m) ==
    log[CHOOSE i \in CooldownOps(p, m) : \A j \in CooldownOps(p, m) : j <= i]

(* C16: when the latest mark or clear for a pair is a markRateLimited      *)
(* without resetAt made at time t, isInCooldown for the pair returns true  *)
(* before t + defaultCooldownMs and false after t + defaultCooldownMs.     *)
C16_DefaultCooldownPeriod ==
    (ret.op = "isInCooldown" /\ CooldownOps(ret.provider, ret.model) # {})
    => LET last == LastCooldownOp(ret.provider, ret.model)
       IN (last.op = "markRateLimited" /\ last.tokens = Null)
          => /\ ret.at < last.at + DefaultCooldownMs => ret.value = TRUE
             /\ ret.at > last.at + DefaultCooldownMs => ret.value = FALSE

(* the pair was marked without resetAt, 90 s went by, and the check says   *)
(* the pair is out of cooldown                                             *)
C16_Witness ==
    /\ ret.op = "isInCooldown"
    /\ CooldownOps(ret.provider, ret.model) # {}
    /\ LastCooldownOp(ret.provider, ret.model).op = "markRateLimited"
    /\ LastCooldownOp(ret.provider, ret.model).tokens = Null
    /\ ret.at > LastCooldownOp(ret.provider, ret.model).at + DefaultCooldownMs
    /\ ret.value = FALSE
    /\ cooldowns[MakeKey(ret.provider, ret.model)] = Null


(* C17: a cooldown record whose expiresAt is not after the current time    *)
(* counts as absent: an isInCooldown made when now >= expiresAt, the       *)
(* instant now = expiresAt included, returns false and removes the record. *)
C17_ExpiredAtInstant ==
    [][\A k \in Pairs :
          (/\ cooldowns[k] # Null
           /\ now >= cooldowns[k]
           /\ ret' # ret
           /\ ret'.op = "isInCooldown"
           /\ ret'.provider = k[1] /\ ret'.model = k[2])
          => /\ ret'.value = FALSE
             /\ cooldowns'[k] = Null]_vars


(* C18: markRateLimited(p, m) changes the cooldown of (p, m) alone: every  *)
(* other pair, another model of p and the same model on another provider   *)
(* included, keeps its record, is not in cooldown if it was not before,    *)
(* and is still a candidate of selection for its model.                    *)
C18_CooldownsIndependent ==
    [][(Len(log') = Len(log) + 1 /\ log'[Len(log')].op = "markRateLimited")
       => LET e == log'[Len(log')]
          IN \A k \in Pairs \ {<<e.provider, e.model>>} :
                /\ cooldowns'[k] = cooldowns[k]
                /\ ~IsInCooldown(cooldowns, k[1], k[2], now)
                   => /\ ~IsInCooldown(cooldowns', k[1], k[2], now)
                      /\ LET candidates ==
                                BuildCandidates(
                                    FindProvidersForModel(k[2], <<"A", "B", "C">>),
                                    {}, usage, cooldowns', now)
                         IN \E i \in 1..Len(candidates) :
                               /\ candidates[i].provider = k[1]
                               /\ candidates[i].model.id = k[2]]_vars

(* A:m70 is in cooldown, and a check of A's other model says it is not;    *)
(* selection for m70 goes to B and selection for m8 to A                   *)
C18_Witness ==
    /\ \E i \in 1..Len(log) :
          /\ log[i].op = "markRateLimited"
          /\ log[i].provider = "A" /\ log[i].model = "m70"
    /\ IsInCooldown(cooldowns, "A", "m70", now)
    /\ ret.op = "isInCooldown" /\ ret.provider = "A" /\ ret.model = "m8"
    /\ ret.at = now /\ ret.value = FALSE
    /\ ~IsInCooldown(cooldowns, "B", "m70", now)
    /\ SelectProvider("m70", {}, <<"A", "B">>, <<>>, usage, cooldowns, now).provider = "B"
    /\ SelectProvider("m8", {}, <<"A", "B">>, <<>>, usage, cooldowns, now).provider = "A"


(* C19: once a markRateLimited for a pair has completed, every cooldown    *)
(* check of the pair that starts later, in any request, answers true while *)
(* the cooldown of the latest mark has not expired: selection does not     *)
(* return the pair and the pre-flight check does not let a call through.   *)
C19_MarkOrderedBeforeChecks ==
    [][\A r \in Reqs :
          /\ (pc[r] = "select" /\ pc'[r] = "check")
             => LET k == MakeKey(sel'[r].provider, sel'[r].model)
                IN ~(markedUntil[k] # Null /\ now < markedUntil[k])
          /\ (pc[r] = "check" /\ pc'[r] = "inflight")
             => LET k == MakeKey(sel[r].provider, sel[r].model)
                IN ~(markedUntil[k] # Null /\ now < markedUntil[k])]_vars

(* a request had selected A; the 429 of another request marked A:m70; the  *)
(* pre-flight check of the first, made afterwards, refused A although no   *)
(* usage was recorded for it                                               *)
C19_Witness ==
    \E r \in Reqs, q \in Reqs :
        /\ r # q
        /\ lastError[q] # NoError /\ lastError[q].status = 429
        /\ "A" \in excludedProviders[q]
        /\ markedUntil[MakeKey("A", "m70")] # Null
        /\ now < markedUntil[MakeKey("A", "m70")]
        /\ pc[r] = "select"
        /\ hist[r].calls = <<>>
        /\ hist[r].attempted = {MakeKey("A", "m70")}
        /\ excludedProviders[r] = {"A"}
        /\ \A w \in Windows : usage[MakeUsageKey("A", "m70", w)] = NoEntry


----------------------------------------------------------------------------
(* recordUsage over a store whose writes can fail (any StateStore, such as *)
(* the Redis store, whose client calls can reject)                         *)

(* Promise.all: rejected as soon as one of the promises is rejected *)
PromiseAll(outcomes) ==
    IF \E w \in DOMAIN outcomes : outcomes[w] = "rejected" THEN "rejected"
    ELSE "fulfilled"

(* the three incrementUsage calls are all started by the map; the ones in  *)
(* `failing` reject and leave their key as it was                          *)
RecordUsageFailing(u, provider, model, tokens, failing, t) ==
    LET existing == RecordUsageRead(u, provider, model, t)
        write(uu, w) ==
            IF w \in failing THEN uu
            ELSE SetUsage(uu, MakeUsageKey(provider, model, w),
                          CalculateUpdatedUsage(existing[w], 1, tokens,
                                                GetWindowStart(w, t)),
                          WINDOW_DURATION_MS[w], t)
    IN write(write(write(PruneUsage(u, KeysOf(provider, model), t),
                         ALL_WINDOWS[1]), ALL_WINDOWS[2]), ALL_WINDOWS[3])

FailingWrites == {{}} \cup {{w} : w \in Windows}

TRecordUsageOn(p, m, tokens, failing) ==
    /\ Len(log) < MaxCalls
    /\ usage' = RecordUsageFailing(usage, p, m, tokens, failing, now)
    /\ log' = Append(log, [op |-> "recordUsage", provider |-> p, model |-> m,
                           tokens |-> tokens, at |-> now])
    /\ ret' = [op |-> "recordUsage", provider |-> p, model |-> m, at |-> now,
               tokens |-> tokens, failed |-> failing,
               outcome |-> PromiseAll([w \in Windows |->
                                         IF w \in failing THEN "rejected"
                                         ELSE "fulfilled"])]
    /\ UNCHANGED <<now, ticks, cooldowns, callerVars, driverVars>>

FailingStoreNext ==
    \/ \E k \in TrackerPairs, tokens \in TokenValues, failing \in FailingWrites :
          TRecordUsageOn(k[1], k[2], tokens, failing)
    \/ \E k \in TrackerPairs : TGetQuotaStatus(k[1], k[2], LimitsOf(k[1], k[2]))
    \/ TTick

FailingStoreSpec == TrackerInit /\ [][FailingStoreNext]_vars

(* C20: when exactly one of the three incrementUsage writes of a           *)
(* recordUsage call fails, the call still completes without an error and   *)
(* the other two windows have the call added to their records.             *)
C20_OneFailedWriteNonFatal ==
    [][(/\ ret' # ret
        /\ ret'.op = "recordUsage"
        /\ Cardinality(ret'.failed) = 1)
       => /\ ret'.outcome = "fulfilled"
          /\ \A w \in Windows \ ret'.failed :
                usage'[MakeUsageKey(ret'.provider, ret'.model, w)].record =
                   [requests |->
                        UsageByWindow(usage, ret'.provider, ret'.model, w, now).requests + 1,
                    tokens |->
                        UsageByWindow(usage, ret'.provider, ret'.model, w, now).tokens
                           + ret'.tokens,
                    windowStart |-> GetWindowStart(w, now)]]_vars


(* C21: selection never returns a provider that is in the excluded set of  *)
(* the request, nor a (provider, model) pair that has an unexpired         *)
(* cooldown record in the store when the selection is made.                *)
C21_SelectionSkipsExcludedAndCooled ==
    [][\A r \in Reqs :
          (pc[r] = "select" /\ pc'[r] = "check")
          => /\ sel'[r].provider \notin excludedProviders[r]
             /\ LET k == MakeKey(sel'[r].provider, sel'[r].model)
                IN cooldowns[k] = Null \/ now > cooldowns[k]]_vars

(* A is excluded for the request, B is in cooldown because of another      *)
(* request, and selection returned C                                       *)
C21_Witness ==
    \E r \in Reqs :
        /\ pc[r] = "check"
        /\ sel[r].provider = "C"
        /\ excludedProviders[r] = {"A"}
        /\ cooldowns[MakeKey("B", "m70")] # Null
        /\ now <= cooldowns[MakeKey("B", "m70")]


----------------------------------------------------------------------------
(* strategies/least-used.ts; a score is the fraction [n / d] *)

(* null: no percentage *)
NoPercentage == [n |-> Null, d |-> Null]

CalculatePercentage(remaining, limit) ==
    IF limit # Null /\ remaining # Null THEN [n |-> remaining, d |-> limit]
    ELSE NoPercentage

FractionLess(a, b) == a.n * b.d < b.n * a.d

RECURSIVE MinFraction(_)
MinFraction(fs) ==
    IF Len(fs) = 1 THEN fs[1]
    ELSE LET m == MinFraction(Tail(fs))
         IN IF FractionLess(m, Head(fs)) THEN m ELSE Head(fs)

CalculateAvailabilityScore(quota, limits) ==
    LET percentages ==
            SelectSeq(
                <<CalculatePercentage(quota.requestsRemaining["minute"], limits.requestsPerMinute),
                  CalculatePercentage(quota.requestsRemaining["hour"], limits.requestsPerHour),
                  CalculatePercentage(quota.requestsRemaining["day"], limits.requestsPerDay),
                  CalculatePercentage(quota.tokensRemaining["minute"], limits.tokensPerMinute),
                  CalculatePercentage(quota.tokensRemaining["hour"], limits.tokensPerHour),
                  CalculatePercentage(quota.tokensRemaining["day"], limits.tokensPerDay)>>,
                LAMBDA q : q # NoPercentage)
    IN IF percentages = <<>> THEN [n |-> 1, d |-> 1]
       ELSE MinFraction(percentages)

(* Math.abs(b.score - a.score) > 0.001 *)
ScoresApart(a, b) ==
    LET diff == b.n * a.d - a.n * b.d
    IN 1000 * (IF diff < 0 THEN -diff ELSE diff) > a.d * b.d

(* the compare function of the sort: by score descending, by priority      *)
(* ascending when the scores are within 0.001 of each other                *)
CompareByAvailability(a, b) ==
    IF ScoresApart(a.score, b.score)
    THEN (IF FractionLess(a.score, b.score) THEN 1 ELSE -1)
    ELSE a.candidate.priority - b.candidate.priority

(* Array.prototype.sort of the runtime (V8) on a short array: the initial  *)
(* run is counted (and reversed when strictly descending), the rest is     *)
(* added by binary insertion                                               *)
RECURSIVE ExtendRun(_, _, _)
ExtendRun(arr, descending, idx) ==
    IF idx > Len(arr) THEN idx - 1
    ELSE LET order == CompareByAvailability(arr[idx - 1], arr[idx])
         IN IF (descending /\ order <= 0) \/ (~descending /\ order > 0)
            THEN idx - 1
            ELSE ExtendRun(arr, descending, idx + 1)

Reverse(arr) == [i \in 1..Len(arr) |-> arr[Len(arr) + 1 - i]]

RECURSIVE InsertionPoint(_, _, _, _)
InsertionPoint(sorted, pivot, left, right) ==
    IF left >= right THEN left
    ELSE LET mid == left + ((right - left) \div 2)
         IN IF CompareByAvailability(pivot, sorted[mid + 1]) < 0
            THEN InsertionPoint(sorted, pivot, left, mid)
            ELSE InsertionPoint(sorted, pivot, mid + 1, right)

RECURSIVE BinaryInsertionSort(_, _)
BinaryInsertionSort(sorted, rest) ==
    IF rest = <<>> THEN sorted
    ELSE LET at == InsertionPoint(sorted, Head(rest), 0, Len(sorted))
         IN BinaryInsertionSort(SubSeq(sorted, 1, at) \o <<Head(rest)>>
                                   \o SubSeq(sorted, at + 1, Len(sorted)),
                                Tail(rest))

SortByAvailability(arr) ==
    IF Len(arr) < 2 THEN arr
    ELSE LET descending == CompareByAvailability(arr[1], arr[2]) > 0
             runLength == ExtendRun(arr, descending, 3)
             run == IF descending THEN Reverse(SubSeq(arr, 1, runLength))
                    ELSE SubSeq(arr, 1, runLength)
         IN BinaryInsertionSort(run, SubSeq(arr, runLength + 1, Len(arr)))

SelectByLeastUsed(candidates, excluded) ==
    LET available == SelectSeq(candidates, LAMBDA c : c.provider \notin excluded)
    IN IF available = <<>> THEN NoCandidate
       ELSE LET bestTier == available[1].model.qualityTier
                sameTier == SelectSeq(available,
                                      LAMBDA c : c.model.qualityTier = bestTier)
                withScores ==
                    [i \in 1..Len(sameTier) |->
                        [candidate |-> sameTier[i],
                         score |-> CalculateAvailabilityScore(
                                       sameTier[i].quota,
                                       sameTier[i].model.limits)]]
            IN SortByAvailability(withScores)[1].candidate


----------------------------------------------------------------------------
(* The strategies applied to tier-sorted candidate lists *)

NoQuota ==
    [requestsRemaining |-> [w \in Windows |-> Null],
     tokensRemaining |-> [w \in Windows |-> Null],
     resetTimes |-> [w \in Windows |-> Null],
     cooldownUntil |-> Null]

(* limits and remaining quota of a candidate: none configured, or 10000    *)
(* tokens and 10 requests per minute with the given amounts left           *)
QuotaProfiles ==
    {[limits |-> NoLimits, quota |-> NoQuota]}
    \cup {[limits |-> [NoLimits EXCEPT !.tokensPerMinute = 10000,
                                       !.requestsPerMinute = 10],
           quota |-> [NoQuota EXCEPT !.tokensRemaining["minute"] = q[1],
                                     !.requestsRemaining["minute"] = q[2]]] :
             q \in {<<5016, 10>>, <<5008, 10>>, <<5000, 10>>, <<9000, 2>>}}

StrategyTiers == {1, 3}

StrategyPriorities == {0, 1, 2}

StrategyProviders == <<"A", "B", "C">>

CandidateAt(i) ==
    {[provider |-> StrategyProviders[i],
      model |-> [id |-> "m", qualityTier |-> tier, limits |-> qp.limits],
      quota |-> qp.quota,
      priority |-> prio] :
        tier \in StrategyTiers, prio \in StrategyPriorities, qp \in QuotaProfiles}

IsTierSorted(cs) ==
    \A i \in 1..(Len(cs) - 1) :
        cs[i].model.qualityTier >= cs[i + 1].model.qualityTier

CandidateLists ==
    {cs \in {<<a>> : a \in CandidateAt(1)}
            \cup {<<a, b>> : a \in CandidateAt(1), b \in CandidateAt(2)}
            \cup {<<a, b, c>> : a \in CandidateAt(1), b \in CandidateAt(2),
                                c \in CandidateAt(3)} :
        IsTierSorted(cs)}

StrategyInputs ==
    {[fn |-> "select", candidates |-> cs, excluded |-> ex] :
        cs \in CandidateLists, ex \in {{}, {"A"}}}

StrategyInit ==
    /\ now = StartTime /\ ticks = 0
    /\ EmptyStore /\ IdleClient /\ IdleDriver
    /\ cpc = [c \in Callers |-> "idle"]
    /\ carg = [c \in Callers |-> NoArg]
    /\ cexisting = [c \in Callers |-> NullUsage]
    /\ input \in StrategyInputs
    /\ output = NoOutput

ApplyPriority ==
    /\ output' = [fn |-> "priority",
                  value |-> PrioritySelectProvider(input.candidates,
                                                   input.excluded)]
    /\ UNCHANGED <<now, ticks, storeVars, cpc, carg, cexisting, input,
                   clientVars, driverVars>>

ApplyLeastUsed ==
    /\ output' = [fn |-> "least-used",
                  value |-> SelectByLeastUsed(input.candidates, input.excluded)]
    /\ UNCHANGED <<now, ticks, storeVars, cpc, carg, cexisting, input,
                   clientVars, driverVars>>

StrategyNext == ApplyPriority \/ ApplyLeastUsed

StrategySpec == StrategyInit /\ [][StrategyNext]_vars

(* the candidates of the input that are not excluded, and the best tier    *)
(* among them                                                              *)
Available == SelectSeq(input.candidates, LAMBDA c : c.provider \notin input.excluded)

TopTier ==
    CHOOSE t \in StrategyTiers :
        /\ \E i \in 1..Len(Available) : Available[i].model.qualityTier = t
        /\ \A i \in 1..Len(Available) : Available[i].model.qualityTier <= t

(* C22: on a tier-sorted input both strategies return a candidate of the   *)
(* highest tier present among the candidates that are not excluded,        *)
(* whatever the priorities and scores of the lower tiers.                  *)
C22_NeverCrossTiers ==
    (output.fn \in {"priority", "least-used"} /\ Available # <<>>)
    => /\ \E i \in 1..Len(Available) : output.value = Available[i]
       /\ output.value.model.qualityTier = TopTier

(* the top tier holds one candidate of priority 2; a lower tier holds a    *)
(* candidate of priority 0 and full quota; the top-tier one is returned    *)
C22_Witness ==
    /\ output.fn = "least-used"
    /\ Len(Available) >= 2
    /\ output.value.model.qualityTier = 3
    /\ output.value.priority = 2
    /\ output.value.model.limits # NoLimits
    /\ \E i \in 1..Len(Available) :
          /\ Available[i].model.qualityTier = 1
          /\ Available[i].priority = 0
          /\ Available[i].model.limits = NoLimits


(* the position in Available of the first candidate with the smallest      *)
(* priority number                                                         *)
FirstOfSmallestPriority ==
    CHOOSE i \in 1..Len(Available) :
        /\ \A j \in 1..Len(Available) : Available[i].priority <= Available[j].priority
        /\ \A j \in 1..(i - 1) : Available[j].priority > Available[i].priority

SameTier ==
    \A i, j \in 1..Len(Available) :
        Available[i].model.qualityTier = Available[j].model.qualityTier

(* C23: over candidates of one tier the priority strategy returns the      *)
(* candidate with the smallest priority number, and of several with that   *)
(* number the one that comes first in the input.                           *)
C23_PrioritySmallestStable ==
    (output.fn = "priority" /\ Available # <<>> /\ SameTier)
    => output.value = Available[FirstOfSmallestPriority]

(* three candidates of one tier, the last two sharing the smallest         *)
(* priority number: the second is returned                                 *)
C23_Witness ==
    /\ output.fn = "priority"
    /\ Len(Available) = 3 /\ SameTier
    /\ Available[1].priority = 2
    /\ Available[2].priority = 1 /\ Available[3].priority = 1
    /\ Available[2] # Available[3]
    /\ output.value = Available[2]

(* C24: the least-used strategy returns a candidate of the top tier that   *)
(* no other candidate of that tier beats in availability score by more     *)
(* than 0.001, and that has the smallest priority number among the         *)
(* candidates whose score is within 0.001 of its own.                      *)
C24_LeastUsedBestScore ==
    (output.fn = "least-used" /\ Available # <<>>)
    => LET top == SelectSeq(Available, LAMBDA c : c.model.qualityTier = TopTier)
           score(c) == CalculateAvailabilityScore(c.quota, c.model.limits)
           chosen == output.value
       IN \A i \in 1..Len(top) :
             /\ ~(/\ 1000 * (score(top[i]).n * score(chosen).d
                                - score(chosen).n * score(top[i]).d)
                         > score(top[i]).d * score(chosen).d)
             /\ (/\ 1000 * (score(top[i]).n * score(chosen).d
                               - score(chosen).n * score(top[i]).d)
                        <= score(top[i]).d * score(chosen).d
                 /\ 1000 * (score(chosen).n * score(top[i]).d
                               - score(top[i]).n * score(chosen).d)
                        <= score(top[i]).d * score(chosen).d)
                => chosen.priority <= top[i].priority

----------------------------------------------------------------------------
(* ResolutionSpec: model-name resolution and candidate matching as pure    *)
(* functions of a requested name, a user alias table, the configured       *)
(* providers and the excluded set (routing/provider-selection.ts and the   *)
(* same helpers in router.ts).                                             *)

ModelNames ==
    {"m70", "M70", "m8", "llama-70b", "Llama-70B", "best-large", "Best-Large",
     "best", "BEST", "best-small", "best-medium", "best-xl", "big", "gpt-9"}

UserAliasTables ==
    {<<>>,
     [a \in {"big", "llama-70b", "best"} |->
        CASE a = "big" -> "best-large"
          [] a = "llama-70b" -> "m8"
          [] a = "best" -> "m70"]}

ProviderLists == {<<"A", "B", "C">>, <<"C", "A">>, <<"B">>, <<"C", "B", "A">>}

ResolutionInputs ==
    [fn : {"resolution"}, model : ModelNames, aliases : UserAliasTables,
     providers : ProviderLists, excluded : {{}, {"A"}, {"C"}}]

ResolutionInit ==
    /\ now = StartTime /\ ticks = 0
    /\ usage = [k \in UsageKeys |-> NoEntry]
    /\ cooldowns \in {[k \in Pairs |-> Null],
                      [k \in Pairs |-> IF k = MakeKey("B", "m70")
                                       THEN StartTime + DefaultCooldownMs
                                       ELSE Null]}
    /\ IdleClient /\ IdleDriver
    /\ cpc = [c \in Callers |-> "idle"]
    /\ carg = [c \in Callers |-> NoArg]
    /\ cexisting = [c \in Callers |-> NullUsage]
    /\ input \in ResolutionInputs
    /\ output = NoOutput

ApplyResolveModelName ==
    /\ output' = [fn |-> "resolveModelName",
                  value |-> ResolveModelName(input.model, input.aliases)]
    /\ UNCHANGED <<now, ticks, storeVars, cpc, carg, cexisting, input,
                   clientVars, driverVars>>

ApplyFindProviders ==
    /\ output' = [fn |-> "findProviders",
                  value |-> FindMatches(ResolveModelName(input.model,
                                                         input.aliases),
                                        input.providers)]
    /\ UNCHANGED <<now, ticks, storeVars, cpc, carg, cexisting, input,
                   clientVars, driverVars>>

ApplySelectProvider ==
    /\ output' = [fn |-> "selectProvider",
                  value |-> SelectProvider(input.model, input.excluded,
                                           input.providers, input.aliases,
                                           usage, cooldowns, now)]
    /\ UNCHANGED <<now, ticks, storeVars, cpc, carg, cexisting, input,
                   clientVars, driverVars>>

ResolutionNext ==
    ApplyResolveModelName \/ ApplyFindProviders \/ ApplySelectProvider

ResolutionSpec == ResolutionInit /\ [][ResolutionNext]_vars

(* every provider/model pair the configured providers of the input offer *)
Offered ==
    UNION {{[provider |-> input.providers[i], model |-> mc] :
              mc \in ModelsOf(input.providers[i])} :
             i \in 1..Len(input.providers)}

Resolved == ResolveModelName(input.model, input.aliases)

UserKeysIgnoringCase ==
    {k \in DOMAIN input.aliases : ToLower(k) = ToLower(input.model)}

(* C27: resolution returns the user table's entry for the requested name,  *)
(* matched on the whole name ignoring case; failing that the canonical id  *)
(* the built-in alias map gives for the lower-cased name; failing that the *)
(* requested name unchanged.                                               *)
C27_ResolutionOrderIgnoringCase ==
    output.fn = "resolveModelName"
    => IF UserKeysIgnoringCase # {}
       THEN \E k \in UserKeysIgnoringCase : output.value = input.aliases[k]
       ELSE IF ToLower(input.model) \in {"m70", "llama-70b"}
            THEN output.value = "m70"
       ELSE output.value = input.model

----------------------------------------------------------------------------
(* UnknownModelSpec: the driver with requests that name a model no         *)
(* configured provider offers, next to requests for a known model.         *)

UnknownModelRequests ==
    {[model |-> "gpt-9", messages |-> <<2>>, stream |-> FALSE],
     [model |-> "m8", messages |-> <<2>>, stream |-> TRUE]}

UnknownModelConfigs ==
    {[providers |-> <<"B", "C">>, maxRetries |-> 1,
      initialBackoffMs |-> 1000, maxBackoffMs |-> 30000,
      backoffMultiplier |-> 2, modelAliases |-> <<>>,
      throwOnExhausted |-> TRUE],
     [providers |-> <<"B", "C">>, maxRetries |-> 1,
      initialBackoffMs |-> 1000, maxBackoffMs |-> 30000,
      backoffMultiplier |-> 2, modelAliases |-> <<>>,
      throwOnExhausted |-> FALSE]}

UnknownModelInit == DriverInit(UnknownModelConfigs)

UnknownModelNext ==
    \/ \E r \in Reqs, params \in RequestChoices \cup UnknownModelRequests :
          StartRequest(r, params)
    \/ \E r \in Reqs : Select(r)
    \/ \E r \in Reqs : PreflightCheck(r)
    \/ \E r \in Reqs, retryAfter \in RetryAfterHeaders :
          UpstreamRateLimited(r, retryAfter)
    \/ \E r \in Reqs : UpstreamFailed(r, 500)
    \/ \E r \in Reqs : Wake(r)
    \/ \E r \in Reqs : Exhausted(r)
    \/ Advance

UnknownModelSpec == UnknownModelInit /\ [][UnknownModelNext]_vars

(* C26: a request whose resolved model name matches no model of any        *)
(* configured provider ends with ModelNotFound, without an upstream call.  *)
C26_UnknownModelNotFound ==
    [][\A r \in Reqs :
          (/\ pc[r] = "exhausted" /\ pc'[r] = "failed"
           /\ FindMatches(ResolveModelName(req[r].model, cfg.modelAliases),
                          cfg.providers) = <<>>)
          => /\ result'[r].status = "ModelNotFound"
             /\ hist[r].calls = <<>>]_vars

----------------------------------------------------------------------------
(* ConfigSpec: the conversion of a provider's configuration record into    *)
(* its runtime form (config/index.ts).  An object is a function from the   *)
(* keys it has to their values; reading a key it lacks gives undefined,    *)
(* written Null.                                                           *)

RateLimitFields ==
    {"requestsPerMinute", "requestsPerHour", "requestsPerDay",
     "tokensPerMinute", "tokensPerHour", "tokensPerDay"}

YamlField(f) ==
    CASE f = "requestsPerMinute" -> "requests_per_minute"
      [] f = "requestsPerHour" -> "requests_per_hour"
      [] f = "requestsPerDay" -> "requests_per_day"
      [] f = "tokensPerMinute" -> "tokens_per_minute"
      [] f = "tokensPerHour" -> "tokens_per_hour"
      [] f = "tokensPerDay" -> "tokens_per_day"

(* every one of the six keys is written, with undefined where the source   *)
(* object has no such key                                                  *)
ConvertRateLimits(yaml) ==
    [f \in RateLimitFields |->
       IF YamlField(f) \in DOMAIN yaml THEN yaml[YamlField(f)] ELSE Null]

(* { ...a, ...b }: every own key of b, whatever its value, replaces a's *)
Spread(a, b) ==
    [k \in DOMAIN a \cup DOMAIN b |-> IF k \in DOMAIN b THEN b[k] ELSE a[k]]

(* a model entry without a limits key *)
NoOverrides == [undefined |-> TRUE]

MergeRateLimits(defaults, overrides) ==
    IF overrides = NoOverrides THEN defaults
    ELSE Spread(defaults, ConvertRateLimits(overrides))

ConvertProviderConfig(yaml) ==
    LET defaultLimits == ConvertRateLimits(yaml.defaults)
    IN [name |-> yaml.name,
        defaultLimits |-> defaultLimits,
        models |-> [i \in 1..Len(yaml.models) |->
                      [canonical |-> yaml.models[i].canonical,
                       id |-> yaml.models[i].id,
                       limits |-> MergeRateLimits(defaultLimits,
                                                  yaml.models[i].limits)]]]

YamlLimits(value) ==
    {[k \in keys |-> value] :
       keys \in SUBSET {YamlField(f) : f \in RateLimitFields}}

ProviderConfigYamls ==
    [fn : {"providerConfig"}, name : {"groq"}, defaults : YamlLimits(30),
     models : {<<[canonical |-> "m120", id |-> "openai/m120", limits |-> l]>> :
                 l \in YamlLimits(8) \cup {NoOverrides}}]

(* resolveConfig: disabled providers are dropped, the others get their     *)
(* defaults; a variant that keeps the disabled ones comes first            *)
ResolveProvider(p) ==
    [type |-> p.type,
     priority |-> IF "priority" \in DOMAIN p THEN p.priority ELSE 0,
     enabled |-> IF "enabled" \in DOMAIN p THEN p.enabled ELSE TRUE]

ResolveConfig_KeepsDisabled(config) ==
    [providers |-> [i \in 1..Len(config.providers) |->
                      ResolveProvider(config.providers[i])],
     strategy |-> IF "strategy" \in DOMAIN config THEN config.strategy
                  ELSE "priority"]

ResolveConfig(config) ==
    LET enabled == SelectSeq(config.providers,
                             LAMBDA p : ~("enabled" \in DOMAIN p
                                           /\ p.enabled = FALSE))
    IN [providers |-> [i \in 1..Len(enabled) |-> ResolveProvider(enabled[i])],
        strategy |-> IF "strategy" \in DOMAIN config THEN config.strategy
                     ELSE "priority"]

(* createRouter up to the construction of the router object *)
CreateRouter(config) ==
    LET resolved == ResolveConfig(config)
    IN IF Len(resolved.providers) = 0
       THEN [ok |-> FALSE, error |-> "ConfigurationError",
             message |-> "At least one provider must be configured"]
       ELSE [ok |-> TRUE, router |-> resolved]

ProviderEntries ==
    [type : {"A", "B"}] \cup [type : {"A", "B"}, enabled : BOOLEAN]
       \cup [type : {"A"}, enabled : BOOLEAN, priority : {1}]

RouterConfigs ==
    {[fn |-> "routerConfig", providers |-> ps] :
       ps \in {<<>>} \cup {<<p>> : p \in ProviderEntries}
                \cup {<<p, q>> : p \in ProviderEntries, q \in ProviderEntries}}
      \cup {[fn |-> "routerConfig", providers |-> <<>>,
              strategy |-> "least-used"]}

ConfigInit ==
    /\ now = StartTime /\ ticks = 0
    /\ EmptyStore /\ IdleClient /\ IdleDriver
    /\ cpc = [c \in Callers |-> "idle"]
    /\ carg = [c \in Callers |-> NoArg]
    /\ cexisting = [c \in Callers |-> NullUsage]
    /\ input \in ProviderConfigYamls \cup RouterConfigs
    /\ output = NoOutput

ApplyConvertProviderConfig ==
    /\ input.fn = "providerConfig"
    /\ output' = [fn |-> "convertProviderConfig",
                  value |-> ConvertProviderConfig(input)]
    /\ UNCHANGED <<now, ticks, storeVars, cpc, carg, cexisting, input,
                   clientVars, driverVars>>

ApplyCreateRouter ==
    /\ input.fn = "routerConfig"
    /\ output' = [fn |-> "createRouter", value |-> CreateRouter(input)]
    /\ UNCHANGED <<now, ticks, storeVars, cpc, carg, cexisting, input,
                   clientVars, driverVars>>

ConfigNext == ApplyConvertProviderConfig \/ ApplyCreateRouter

ConfigSpec == ConfigInit /\ [][ConfigNext]_vars

(* C28: in the effective limits of a provider model each of the six fields *)
(* is the per-model value when the model's limits set that field, and the  *)
(* provider default otherwise (undefined when neither sets it).            *)
C28_LimitsOverrideFieldWise ==
    output.fn = "convertProviderConfig"
    => \A i \in 1..Len(input.models), f \in RateLimitFields :
          output.value.models[i].limits[f] =
             IF /\ input.models[i].limits # NoOverrides
                /\ YamlField(f) \in DOMAIN input.models[i].limits
             THEN input.models[i].limits[YamlField(f)]
             ELSE IF YamlField(f) \in DOMAIN input.defaults
                  THEN input.defaults[YamlField(f)]
             ELSE Null

(* C29: creating a router from a provider list that is empty, or whose     *)
(* every entry has enabled set to false, fails with ConfigurationError and *)
(* gives no router.                                                        *)
C29_NoEnabledProviderFails ==
    (/\ output.fn = "createRouter"
     /\ \A i \in 1..Len(input.providers) :
           /\ "enabled" \in DOMAIN input.providers[i]
           /\ input.providers[i].enabled = FALSE)
    => /\ ~output.value.ok
       /\ output.value.error = "ConfigurationError"
       /\ "router" \notin DOMAIN output.value

C29_Witness ==
    /\ output.fn = "createRouter"
    /\ Len(input.providers) = 2
    /\ \A i \in 1..2 : /\ "enabled" \in DOMAIN input.providers[i]
                       /\ input.providers[i].enabled = FALSE
    /\ ~output.value.ok

(* C30: a request runs the driver loop at most (maxRetries + 1) + (number  *)
(* of configured providers) times: every iteration that does not end the   *)
(* loop excludes a provider that was not excluded before, and the retry    *)
(* counter never passes maxRetries + 1.                                    *)
C30_LoopIterationsBounded ==
    \A r \in Reqs :
        /\ hist[r].selections <= (cfg.maxRetries + 1) + Len(cfg.providers)
        /\ pc[r] \in {"select", "check", "inflight", "sleep", "exhausted"}
           => /\ hist[r].selections <= Cardinality(excludedProviders[r]) + 1
              /\ excludedProviders[r]
                    \subseteq {cfg.providers[i] : i \in 1..Len(cfg.providers)}
              /\ retryCount[r] <= cfg.maxRetries + 1

C30_Witness ==
    \E r \in Reqs :
        /\ pc[r] = "exhausted"
        /\ hist[r].selections = Len(cfg.providers) + 1
        /\ excludedProviders[r] = {"A", "B", "C"}
        /\ retryCount[r] = 1

----------------------------------------------------------------------------
(* StoreFailureSpec: the driver over a store whose updateLatency write can *)
(* reject (a file or remote store).  The await sits inside the try block   *)
(* of the loop, so the rejection lands in its catch clause.                *)

StoreError ==
    [status |-> 0, retryAfter |-> NoHeader, message |-> "store write failed"]

(* `await stateStore.updateLatency(...)` rejects: after recordUsage has     *)
(* written when the request is not streaming, before recordUsage when it   *)
(* is; the catch clause treats the error as a failed attempt               *)
UpdateLatencyFailed(r) ==
    /\ pc[r] \in {"recording", "latency"}
    /\ ~IsRateLimitError(StoreError)
    /\ failures < MaxFailures
    /\ failures' = failures + 1
    /\ usage' = IF pc[r] = "recording"
                THEN RecordUsageWrite(usage, sel[r].provider, sel[r].model,
                                      rec[r].tokens, rec[r].existing,
                                      rec[r].t0, now)
                ELSE usage
    /\ lastError' = [lastError EXCEPT ![r] = StoreError]
    /\ excludedProviders' =
          [excludedProviders EXCEPT ![r] = @ \cup {sel[r].provider}]
    /\ retryCount' = [retryCount EXCEPT ![r] = @ + 1]
    /\ IF retryCount[r] + 1 <= cfg.maxRetries
       THEN /\ wakeAt' = [wakeAt EXCEPT ![r] = now + BackoffMs(retryCount[r] + 1)]
            /\ pc' = [pc EXCEPT ![r] = "sleep"]
       ELSE /\ pc' = [pc EXCEPT ![r] = "exhausted"]
            /\ UNCHANGED wakeAt
    /\ hist' = [hist EXCEPT ![r].failure = StoreError]
    /\ UNCHANGED <<now, ticks, cooldowns, callerVars, clientVars, cfg, req,
                   sel, rec, result, started, retryAfterUntil, markedUntil>>

StoreFailureNext ==
    \/ \E r \in Reqs, params \in RequestChoices : StartRequest(r, params)
    \/ \E r \in Reqs : Select(r)
    \/ \E r \in Reqs : PreflightCheck(r)
    \/ \E r \in Reqs, totalTokens \in ResponseTokens :
          UpstreamSuccess(r, totalTokens)
    \/ \E r \in Reqs : StreamRecordUsage(r)
    \/ \E r \in Reqs : FinishRecordUsage(r)
    \/ \E r \in Reqs : UpdateLatencyFailed(r)
    \/ \E r \in Reqs : UpstreamFailed(r, 500)
    \/ \E r \in Reqs : Wake(r)
    \/ \E r \in Reqs : Exhausted(r)
    \/ Advance

StoreFailureSpec == Init /\ [][StoreFailureNext]_vars

(* C31: once the upstream call of a request has returned a response, the   *)
(* request makes no further upstream call and ends by returning that       *)
(* response, whatever the store writes that follow do.                     *)
C31_SuccessIsFinal ==
    [][\A r \in Reqs :
          (pc[r] \in {"latency", "recording"}
             /\ pc'[r] \notin {"latency", "recording"})
          => /\ pc'[r] = "done"
             /\ result'[r].status = "ok"
             /\ result'[r].provider = sel[r].provider]_vars

----------------------------------------------------------------------------
(* AliasRequestSpec: the driver with requests for a generic alias, which   *)
(* several models of one provider can match, next to requests for a model. *)

AliasRequests ==
    {[model |-> "best", messages |-> <<2>>, stream |-> FALSE],
     [model |-> "m70", messages |-> <<2>>, stream |-> FALSE]}

AliasRequestConfigs ==
    {[providers |-> <<"A", "B">>, maxRetries |-> 2,
      initialBackoffMs |-> 1000, maxBackoffMs |-> 30000,
      backoffMultiplier |-> 2, modelAliases |-> <<>>,
      throwOnExhausted |-> TRUE]}

AliasRequestInit == DriverInit(AliasRequestConfigs)

AliasRequestNext ==
    \/ \E r \in Reqs, params \in AliasRequests : StartRequest(r, params)
    \/ \E r \in Reqs : Select(r)
    \/ \E r \in Reqs : PreflightCheck(r)
    \/ \E r \in Reqs, totalTokens \in ResponseTokens :
          UpstreamSuccess(r, totalTokens)
    \/ \E r \in Reqs : FinishRecordUsage(r)
    \/ \E r \in Reqs, retryAfter \in RetryAfterHeaders :
          UpstreamRateLimited(r, retryAfter)
    \/ \E r \in Reqs : UpstreamFailed(r, 500)
    \/ \E r \in Reqs : Wake(r)
    \/ \E r \in Reqs : Exhausted(r)
    \/ Advance

AliasRequestSpec == AliasRequestInit /\ [][AliasRequestNext]_vars

(* the pairs that match the model a request asks for *)
MatchingPairs(r) ==
    LET matches == FindMatches(ResolveModelName(req[r].model, cfg.modelAliases),
                               cfg.providers)
    IN {MakeKey(matches[i].provider, matches[i].model.id) :
          i \in 1..Len(matches)}

(* C32: when the loop of a request ends without a response, either its     *)
(* retries are used up or every pair matching the requested model was      *)
(* refused by the pre-flight check or failed upstream during the request,  *)
(* or is in cooldown.                                                      *)
C32_NoGiveUpWhileEligible ==
    [][\A r \in Reqs :
          (pc[r] # "exhausted" /\ pc'[r] = "exhausted")
          => \/ retryCount'[r] > cfg.maxRetries
             \/ \A k \in MatchingPairs(r) :
                   \/ k \in hist'[r].attempted
                   \/ IsInCooldown(cooldowns, k[1], k[2], now)]_vars

(* C33: for every pair and window with a requests limit, the request count *)
(* stored for the window never exceeds the limit, however the requests     *)
(* interleave.                                                             *)
C33_StoredCountWithinLimit ==
    \A k \in Pairs, w \in Windows :
        LET limit == GetLimitForWindow(LimitsOf(k[1], k[2]), w, "requests")
        IN limit # Null
           => usage[MakeUsageKey(k[1], k[2], w)].record.requests <= limit

(* C34: the window-start of the record stored under a usage key never      *)
(* decreases: a write that carries an older window-start than the stored   *)
(* record leaves the record of the newer window in place.                  *)
C34_WindowStartMonotone ==
    [][\A k \in UsageKeys :
          (usage[k] # NoEntry /\ usage'[k] # NoEntry)
          => usage'[k].record.windowStart >= usage[k].record.windowStart]_vars

(* C35: a markRateLimited call for a pair whose cooldown has not expired   *)
(* never leaves the pair with an earlier expiry than it had.               *)
C35_MarkNeverShortens ==
    [][\A k \in Pairs :
          (/\ Len(log') = Len(log) + 1
           /\ log'[Len(log')].op = "markRateLimited"
           /\ log'[Len(log')].provider = k[1]
           /\ log'[Len(log')].model = k[2]
           /\ cooldowns[k] # Null
           /\ now < cooldowns[k])
          => cooldowns'[k] >= cooldowns[k]]_vars

(* C36: while a request runs its excluded set only grows, a selection      *)
(* never returns a provider that is excluded or that was pruned or failed  *)
(* earlier in the request, and no provider is called upstream twice.       *)
C36_ExcludedGrowsCalledOnce ==
    [][\A r \in Reqs :
          /\ (pc[r] \notin {"idle", "done", "failed"}
                /\ pc'[r] \notin {"done", "failed"})
             => excludedProviders[r] \subseteq excludedProviders'[r]
          /\ (pc[r] = "select" /\ pc'[r] = "check")
             => /\ sel'[r].provider \notin excludedProviders[r]
                /\ sel'[r].provider \notin {k[1] : k \in hist[r].attempted}
          /\ \A i, j \in 1..Len(hist'[r].calls) :
                hist'[r].calls[i] = hist'[r].calls[j] => i = j]_vars

C36_Witness ==
    \E r \in Reqs :
        /\ pc[r] = "inflight"
        /\ excludedProviders[r] = {"A", "B"}
        /\ hist[r].attempted = {MakeKey("A", "m70"), MakeKey("B", "m70")}
        /\ hist[r].calls = <<"B", "C">>

(* the pairs whose upstream call failed so far in the request: the pairs   *)
(* noted as pruned or failed whose provider was called                     *)
FailedCalls(r) ==
    {k \in hist[r].attempted :
       \E i \in 1..Len(hist[r].calls) : hist[r].calls[i] = k[1]}

(* C37: the retryCount returned with a response is the number of upstream  *)
(* calls that failed earlier in the request; pre-flight prunes do not      *)
(* count.                                                                  *)
C37_RetryCountIsFailedCalls ==
    [][\A r \in Reqs :
          (pc[r] # "done" /\ pc'[r] = "done")
          => result'[r].retryCount = Cardinality(FailedCalls(r))]_vars

(* C38: every provider in the attempted list of AllProvidersExhausted was  *)
(* called upstream during the request, and every provider whose upstream   *)
(* call failed during the request is in the list.                          *)
C38_AttemptedWereCalled ==
    [][\A r \in Reqs :
          (/\ pc[r] = "exhausted" /\ pc'[r] = "failed"
           /\ result'[r].status = "AllProvidersExhausted")
          => /\ \A p \in result'[r].attemptedProviders :
                   \E i \in 1..Len(hist[r].calls) : hist[r].calls[i] = p
             /\ \A k \in FailedCalls(r) :
                   k[1] \in result'[r].attemptedProviders]_vars

----------------------------------------------------------------------------
(* WindowSpec: the window arithmetic of rate-limit/windows.ts applied to   *)
(* times on, just before and just after window boundaries.                 *)

WindowTimes ==
    {base + offset :
       base \in {0, 60000, 3600000, 86400000, 2 * 86400000 + 3600000},
       offset \in {-60001, -1, 0, 1, 29999, 59999, 3599999, 86399999}}

WindowInputs == [fn : {"windows"}, window : Windows, now : WindowTimes]

WindowInit ==
    /\ now = StartTime /\ ticks = 0
    /\ EmptyStore /\ IdleClient /\ IdleDriver
    /\ cpc = [c \in Callers |-> "idle"]
    /\ carg = [c \in Callers |-> NoArg]
    /\ cexisting = [c \in Callers |-> NullUsage]
    /\ input \in WindowInputs
    /\ output = NoOutput

ApplyWindows ==
    /\ output' = [fn |-> "windows",
                  start |-> GetWindowStart(input.window, input.now),
                  end |-> GetWindowEnd(input.window, input.now),
                  untilReset |-> GetTimeUntilReset(input.window, input.now)]
    /\ UNCHANGED <<now, ticks, storeVars, cpc, carg, cexisting, input,
                   clientVars, driverVars>>

WindowNext == ApplyWindows

WindowSpec == WindowInit /\ [][WindowNext]_vars

(* C39: for the minute (60 s), hour (3600 s) and day (86400 s) windows and *)
(* every time, the window start is the multiple of the length at or just   *)
(* below the time, the end is one length later, the time lies in           *)
(* [start, end), and the time until reset is end - now, more than 0 and at *)
(* most the length.                                                        *)
C39_WindowsFloorAligned ==
    output.fn = "windows"
    => LET length == CASE input.window = "minute" -> 60 * 1000
                       [] input.window = "hour" -> 3600 * 1000
                       [] input.window = "day" -> 86400 * 1000
       IN /\ output.start % length = 0
          /\ output.start <= input.now
          /\ input.now < output.start + length
          /\ output.end = output.start + length
          /\ output.untilReset = output.end - input.now
          /\ output.untilReset > 0
          /\ output.untilReset <= length

C39_Witness ==
    /\ input.window = "day"
    /\ input.now = 2 * 86400000 - 1
    /\ output.fn = "windows"
    /\ output.start = 86400000
    /\ output.end = 2 * 86400000
    /\ output.untilReset = 1

====
